---- MODULE Spec2Model ----
(***************************************************************************)
(* Run lifecycle of gazeqa: the run registry (gazeqa/run_service.py), the  *)
(* workflow engine with its task runner (gazeqa/workflow.py) and the       *)
(* executor pool (gazeqa/api.py).                                          *)
(*                                                                         *)
(* Files of a run directory are modelled by their parsed contents:         *)
(*   run_manifest.json   -> manifestStatus, manifestHistory, manifestMeta  *)
(*   run_summary.json    -> summaryStatus, summaryHistory                  *)
(*   status_history.json -> historyFile                                    *)
(*   events.jsonl        -> eventsFile                                     *)
(*   temporal/checkpoints.jsonl -> checkpoints                             *)
(* datetime.now() is a logical clock per run that ticks at every reading   *)
(* made by an operation on that run.                                       *)
(***************************************************************************)
EXTENDS Naturals, Sequences, FiniteSets, TLC

\* ------------------------------------------------------------------ bounds

\* Largest RetryPolicy.max_attempts explored.
MaxPolicyAttempts == 3

\* Number of operator calls of POST /runs/{id}/status explored per run.
MaxOperatorUpdates == 2

\* Number of update_status calls the concurrent callers make in all.
MaxThreadCalls == 2

\* Largest number of segments of a relative path given to get_artifact_path.
MaxPathLen == 3

\* Last second of the clock of the signed downloads.
MaxNow == 3

\* RunRequestHandler.SIGNING_TTL, in seconds.
SigningTtl == 1

\* Largest number of keys of the key ring.
MaxRing == 2

\* Largest number of pages of a site map.
MaxPages == 3

\* Largest max_pages_per_run.
MaxPageLimit == 2

\* Largest max_depth.
MaxDepth == 2

\* Largest max_nodes_per_run.
MaxNodeLimit == 2

\* Largest number of writes of secrets files.
MaxFileWrites == 2

\* Largest number of callbacks registered for a run.
MaxListeners == 1

\* Number of status updates made through POST /runs/{id}/status, over all runs.
MaxApiUpdates == 1

\* Number of checkpoints recorded through POST /runs/{id}/checkpoints, over all runs.
MaxApiCheckpoints == 1

\* RetryPolicy.max_attempts default, used by serve() (no retry_policy passed).
DefaultMaxAttempts == 3

\* ------------------------------------------------------------------ domains

Runs == {"r1", "r2"}

\* The run the single-run specification drives.
MainRun == "r1"

Listeners == {"L1", "L2"}

\* The worker threads of the pool: max_workers defaults to 2.
Workers == {"w1", "w2"}

\* The organization slugs of payloads, after CreateRunPayload.from_dict.
Slugs == {"default", "acme"}

\* What index.get(run_id) gives for a run that has no entry.
NoEntry == "none"

\* Threads that call update_status on the same run: the workflow's worker and
\* the handler of POST /runs/{id}/status.
Threads == {"workflow", "operator"}

\* The statuses the concurrent callers pass: the run's current one and another.
ThreadStatuses == {"Running", "Completed"}

\* Statuses an operator posts to /runs/{id}/status (any string is accepted).
OperatorStatuses == {"Running", "Paused", "Completed"}

Activities == {"auth", "exploration", "crawl"}

\* What authenticate() of the auth orchestrator can do.
AuthResults == {"success", "success_false", "non_dict", "retryable", "error"}

\* What explore() / crawl() can do: return, raise RetryableWorkflowError, raise
\* anything else.
CollaboratorResults == {"success", "retryable", "error"}

\* ------------------------------------------------------------------ state

VARIABLES
    \* configuration, fixed at construction
    invokeAuthOnCreate,   \* RunService.invoke_auth_on_create
    rsOrchestrator,       \* RunService.auth_orchestrator is set
    wfOrchestrator,       \* RunWorkflow.auth_orchestrator is not None
    builderSet,           \* RunWorkflow.site_map_builder is not None
    maxAttempts,          \* RunWorkflow.temporal.default_policy.max_attempts
    \* run registry, per run
    created,              \* the run directory and its files exist
    credsEmpty,           \* manifest credentials: CredentialSpec.is_empty()
    manifestStatus,       \* run_manifest.json "status"
    manifestHistory,      \* run_manifest.json "status_history"
    manifestMeta,         \* run_manifest.json "status_metadata" ("phase" key)
    summaryStatus,        \* run_summary.json "status"
    summaryHistory,       \* run_summary.json "status_history"
    historyFile,          \* status_history.json
    eventsFile,           \* events.jsonl
    checkpoints,          \* temporal/checkpoints.jsonl
    clock,                \* datetime.now(), as read by the operations on a run
    opUpdates,            \* operator status updates made so far, per run
    \* listener fan-out
    listeners,            \* RunService.status_listeners[run_id], a list
    delivered,            \* events each listener callback was called with
    \* workflow engine, per run
    pc,                   \* position of RunWorkflow.execute
    phase,                \* local variable phase of execute
    activity,             \* name of the activity run_activity is running
    attempt,              \* loop variable attempt of run_activity
    calls,                \* invocations of func() made by run_activity
    emitted,              \* telemetry events emitted by _emit
    \* executor pool
    queue,                \* WorkflowExecutor.queue
    unfinishedTasks,      \* WorkflowExecutor.queue.unfinished_tasks
    stopEvent,            \* WorkflowExecutor.stop_event is set
    wpc,                  \* position of each worker thread in _worker
    wrun,                 \* local variable run_id of each worker
    spc,                  \* position of the submit call made for each run
    sdpc,                 \* position of the shutdown call
    \* threads that call update_status concurrently
    thr,                  \* position and local variables of each caller
    \* run index
    index,                \* run_index.json: the organization_slug of each entry
    manifestSlug,         \* run_manifest.json "organization_slug" (the parent directory)
    cpc,                  \* position of the concurrent create_run call for each run
    cidx,                 \* local variable index of _update_index in that call
    \* HTTP API
    authRequired,         \* the token registry is not empty
    resp,                 \* the request being served and its response
    creator,              \* the token of the POST /runs that created each run
    \* get_artifact_path
    pathArg,              \* the relative_path argument
    pathResult,           \* what the call returned or raised
    \* signed downloads
    ring,                 \* SigningKeySet.all_keys, the primary key first
    now,                  \* the time in seconds
    url,                  \* the download URL _send_artifacts issued
    dl,                   \* the download request being served and its response
    \* ExplorationEngine.explore
    expConfig,            \* ExplorationConfig: coverage_threshold, max_pages_per_run, destructive_keywords
    expPages,             \* pages, the site map as a list
    expPc,                \* "start", "loop", "after", "done" or "raised"
    expIdx,               \* idx of the for loop over candidate_pages
    expVisited,           \* visited
    expSkipped,           \* skipped
    expEvents,            \* guardrail_events
    expRateLimited,       \* rate_limited
    expFiles,             \* the files _persist wrote
    \* BFSCrawler.crawl
    bfsConfig,            \* CrawlConfig: max_depth, max_nodes_per_run and the keyword lists
    bfsSeeds,             \* seeds
    bfsAdjacency,         \* adjacency, by page_id
    bfsPc,                \* "start", "loop", "after" or "done"
    bfsQueue,             \* queue, of (page, depth, parent)
    bfsVisited,           \* visited, in insertion order
    bfsSkipped,           \* skipped
    bfsEvents,            \* guardrail_events
    bfsFiles,             \* the files _persist wrote
    bfsPrevious,          \* what an earlier crawl of the same inputs produced
    \* SecretsManager
    secEnv,               \* the constructor's arguments: static registry, signing keys
    registryFile,         \* the token registry file: exists, mtime, content
    tokenFile,            \* the single-token file
    signingKeyFile,       \* the signing key file
    secCache,             \* what the manager loaded from the files, and their mtimes
    secWrites,            \* how many times a file was written
    secResult,            \* what the last get_token_registry or get_signing_keys returned
    \* the storage root on disk
    runLocation,          \* where each run's directory is: "none", "root" or an organization directory
    indexOrder,           \* the run ids of run_index.json in the order of its keys
    rbLast,               \* the kind of the last rebuild_index calls and how many in a row
    \* intake of raw payloads
    intake,               \* the create_run call being answered: its payload and its outcome
    \* the handler of GET /runs/{id}/events/stream
    ssePc,                \* position of _stream_events
    sseHistory,           \* the history get_status_history returned to it
    sseFrames,            \* the status frames written to the client, in order
    sseStop,              \* stop_event
    clientOpen            \* the client still reads the connection

cfgVars == <<invokeAuthOnCreate, rsOrchestrator, wfOrchestrator, builderSet, maxAttempts>>

regVars ==
    <<created, credsEmpty, manifestStatus, manifestHistory, manifestMeta, summaryStatus,
      summaryHistory, historyFile, eventsFile, checkpoints, clock, opUpdates>>

lsnVars == <<listeners, delivered>>

wfVars == <<pc, phase, activity, attempt, calls, emitted>>

poolVars == <<queue, unfinishedTasks, stopEvent, wpc, wrun, spc, sdpc>>

idxVars == <<index, manifestSlug, cpc, cidx>>

\* The variables only create_run changes, among the operations of the
\* registry, the workflow, the pool and the update_status threads.
apiVars == <<authRequired, resp, creator>>

pathVars == <<pathArg, pathResult>>

urlVars == <<ring, now, url, dl>>

expVars == <<expConfig, expPages, expPc, expIdx, expVisited, expSkipped, expEvents,
             expRateLimited, expFiles>>

bfsVars == <<bfsConfig, bfsSeeds, bfsAdjacency, bfsPc, bfsQueue, bfsVisited, bfsSkipped,
             bfsEvents, bfsFiles, bfsPrevious>>

secVars == <<secEnv, registryFile, tokenFile, signingKeyFile, secCache, secWrites, secResult>>

dskVars == <<runLocation, indexOrder, rbLast>>

valVars == <<intake>>

sseVars == <<ssePc, sseHistory, sseFrames, sseStop, clientOpen>>

\* The variables of the functions checked on their own, and what each of
\* them leaves alone.
fnVars == <<pathVars, urlVars, expVars, bfsVars, secVars, dskVars, valVars, sseVars>>

notPathVars == <<urlVars, expVars, bfsVars, secVars, dskVars, valVars, sseVars>>

notUrlVars == <<pathVars, expVars, bfsVars, secVars, dskVars, valVars, sseVars>>

notExpVars == <<pathVars, urlVars, bfsVars, secVars, dskVars, valVars, sseVars>>

notBfsVars == <<pathVars, urlVars, expVars, secVars, dskVars, valVars, sseVars>>

notSecVars == <<pathVars, urlVars, expVars, bfsVars, dskVars, valVars, sseVars>>

notDskVars == <<pathVars, urlVars, expVars, bfsVars, secVars, valVars, sseVars>>

notValVars == <<pathVars, urlVars, expVars, bfsVars, secVars, dskVars, sseVars>>

notSseVars == <<pathVars, urlVars, expVars, bfsVars, secVars, dskVars, valVars>>

\* The variables of the components that use the registry.
extVars == <<apiVars, fnVars>>

otherVars == <<idxVars, extVars>>

\* The variables no operation of the workflow and no update_status changes.
restVars == <<cfgVars, poolVars, thr, otherVars>>

\* The variables no operation of the pool changes.
nonPoolVars == <<cfgVars, regVars, lsnVars, wfVars, thr, otherVars>>

vars == <<cfgVars, regVars, lsnVars, wfVars, poolVars, thr, otherVars>>

\* ------------------------------------------------------------------ helpers

Last(s) == s[Len(s)]

\* An entry of a status history.
Entry(s, t) == [status |-> s, timestamp |-> t]

\* The statuses of a history, in order.
Statuses(h) == [i \in 1..Len(h) |-> h[i].status]

\* A line of temporal/checkpoints.jsonl.  Its name "<scope>.<kind>" is kept as the
\* two parts; attempt is the attempt index (0 when the checkpoint carries none) and
\* detail the phase, reason or exception kind it carries.
Checkpoint(scope, kind, n, detail) ==
    [scope |-> scope, kind |-> kind, attempt |-> n, detail |-> detail]

\* A line of events.jsonl.
Event(name, s, t) == [event |-> name, status |-> s, timestamp |-> t]

\* s repeated n times.
RECURSIVE Repeat(_, _)
Repeat(x, n) == IF n = 0 THEN <<>> ELSE <<x>> \o Repeat(x, n - 1)

\* Number of positions of s that hold x.
Count(s, x) == Cardinality({i \in 1..Len(s) : s[i] = x})

\* ------------------------------------------------------------------ registry

\* RunService._append_status_history: the history after the event's status is
\* appended, unless the last entry already has that status.
AppendStatusHistory(history, event) ==
    IF history # <<>> /\ Last(history).status = event.status
    THEN history
    ELSE Append(history, Entry(event.status, event.timestamp))

\* The callbacks that raise an exception when they are called.
RaisingListeners == {"L1"}

\* A mutant of CalledCallbacks: the first exception ends the loop.
CalledUntilRaise(callbacks) ==
    LET raising == {i \in 1..Len(callbacks) : callbacks[i] \in RaisingListeners}
    IN  IF raising = {} THEN callbacks
        ELSE SubSeq(callbacks, 1, CHOOSE i \in raising : \A j \in raising : i <= j)

\* _notify_listeners, lines 399-403: the callbacks the loop calls; the
\* exception of a callback is caught and the loop continues.
CalledCallbacks(callbacks) == callbacks

\* RunService._notify_listeners: every callback of the run's list is called with
\* the event, in list order; an exception of a callback is swallowed.
NotifyListeners(r, event) ==
    [l \in Listeners |->
        delivered[l] \o Repeat(event, Count(CalledCallbacks(listeners[r]), l))]

\* RunService.get_status_history: status_history.json exists for every created
\* run (written by _persist_run), so the file is what is returned.
GetStatusHistory(r) == historyFile[r]

\* A mutant of ManifestStatusAfterUpdate: the manifest keeps its status.
ManifestStatusStale(old, status) == old

\* update_status: manifest["status"] = status.
ManifestStatusAfterUpdate(old, status) == status

\* RunService.update_status, all of it.  The caller says what happens to
\* checkpoints and opUpdates.
UpdateStatus(r, status, metaPhase) ==
    LET timestamp == clock[r]
        history == Append(GetStatusHistory(r), Entry(status, timestamp))
        event == Event("run.status", status, timestamp)
    IN  /\ clock' = [clock EXCEPT ![r] = @ + 1]
        /\ manifestStatus' = [manifestStatus EXCEPT ![r] = ManifestStatusAfterUpdate(@, status)]
        \* manifest.setdefault("status_history", history): the key exists
        /\ UNCHANGED manifestHistory
        /\ manifestMeta' = [manifestMeta EXCEPT ![r] = IF metaPhase = "" THEN @ ELSE metaPhase]
        /\ summaryStatus' = [summaryStatus EXCEPT ![r] = status]
        /\ summaryHistory' = [summaryHistory EXCEPT ![r] = history]
        /\ eventsFile' = [eventsFile EXCEPT ![r] = Append(@, event)]
        /\ historyFile' = [historyFile EXCEPT ![r] = AppendStatusHistory(history, event)]
        /\ delivered' = NotifyListeners(r, event)
        /\ UNCHANGED <<created, credsEmpty, listeners>>

\* RunService.create_run, lines 36-99, with a valid payload: the run's files
\* are written and the listeners notified.  empty tells whether the payload's
\* credentials are empty, authOk is the "success" of the inline authenticate()
\* result, when it is called, and slug is the payload's organization_slug.
CreateRunFiles(r, empty, authOk, slug) ==
    LET inlineAuth == invokeAuthOnCreate /\ rsOrchestrator /\ ~empty
        pending == <<Entry("Pending", clock[r])>>
        afterAuth ==
            IF inlineAuth
            THEN Append(pending, Entry(IF authOk THEN "Authenticated" ELSE "AuthFailed", clock[r] + 1))
            ELSE pending
        t1 == IF inlineAuth THEN clock[r] + 2 ELSE clock[r] + 1
        history == Append(afterAuth, Entry("Running", t1))
        event == Event("run.created", "Running", t1 + 1)
    IN  /\ ~created[r]
        /\ inlineAuth \/ authOk
        /\ created' = [created EXCEPT ![r] = TRUE]
        /\ credsEmpty' = [credsEmpty EXCEPT ![r] = empty]
        /\ manifestSlug' = [manifestSlug EXCEPT ![r] = slug]
        /\ manifestStatus' = [manifestStatus EXCEPT ![r] = "Running"]
        /\ manifestHistory' = [manifestHistory EXCEPT ![r] = history]
        /\ summaryStatus' = [summaryStatus EXCEPT ![r] = "Running"]
        /\ summaryHistory' = [summaryHistory EXCEPT ![r] = history]
        /\ eventsFile' = [eventsFile EXCEPT ![r] = Append(@, event)]
        /\ historyFile' = [historyFile EXCEPT ![r] = AppendStatusHistory(history, event)]
        /\ delivered' = NotifyListeners(r, event)
        /\ clock' = [clock EXCEPT ![r] = t1 + 2]
        /\ UNCHANGED <<manifestMeta, checkpoints, opUpdates, listeners>>
        /\ UNCHANGED <<cfgVars, poolVars, thr, wfVars>>

\* RunService._update_index, line 441, applied to the index it read.
IndexWith(read, r, slug) == [read EXCEPT ![r] = slug]

\* RunService.create_run as one call that no other call interleaves with.
CreateRunAs(r, empty, authOk, slug) ==
    /\ cpc[r] = "none"
    /\ CreateRunFiles(r, empty, authOk, slug)
    /\ index' = IndexWith(index, r, slug)
    /\ cpc' = [cpc EXCEPT ![r] = "done"]
    /\ UNCHANGED cidx

\* create_run with a payload that names no organization.
CreateRun(r, empty, authOk) ==
    /\ CreateRunAs(r, empty, authOk, "default")
    /\ UNCHANGED extVars

\* create_run called by concurrent threads, lines 36-99: the run is persisted.
CreatePersist(r, empty, slug) ==
    /\ cpc[r] = "none"
    /\ CreateRunFiles(r, empty, TRUE, slug)
    /\ cpc' = [cpc EXCEPT ![r] = "read"]
    /\ UNCHANGED <<index, cidx, extVars>>

\* _update_index, line 440: run_index.json is read.
CreateReadIndex(r) ==
    /\ cpc[r] = "read"
    /\ cidx' = [cidx EXCEPT ![r] = index]
    /\ cpc' = [cpc EXCEPT ![r] = "write"]
    /\ UNCHANGED <<index, manifestSlug, extVars>>
    /\ UNCHANGED <<cfgVars, regVars, lsnVars, wfVars, poolVars, thr>>

\* _update_index, lines 441-442: the entry is set in the index read and the
\* index written; create_run returns.
CreateWriteIndex(r) ==
    /\ cpc[r] = "write"
    /\ index' = IndexWith(cidx[r], r, manifestSlug[r])
    /\ cpc' = [cpc EXCEPT ![r] = "done"]
    /\ UNCHANGED <<cidx, manifestSlug, extVars>>
    /\ UNCHANGED <<cfgVars, regVars, lsnVars, wfVars, poolVars, thr>>

\* RunService.list_runs: the entries of the index or, when the index is empty,
\* the runs whose manifest is found under the storage root.
ListRuns ==
    IF \E r \in Runs : index[r] # NoEntry
    THEN {[id |-> r, organization_slug |-> index[r]] : r \in {q \in Runs : index[q] # NoEntry}}
    ELSE {[id |-> r, organization_slug |-> manifestSlug[r]] : r \in {q \in Runs : created[q]}}

\* POST /runs/{id}/status: the operator's update_status on an existing run.
OperatorUpdateStatus(r, status) ==
    /\ created[r]
    /\ opUpdates[r] < MaxOperatorUpdates
    /\ opUpdates' = [opUpdates EXCEPT ![r] = @ + 1]
    /\ UpdateStatus(r, status, "")
    /\ UNCHANGED checkpoints
    /\ UNCHANGED <<restVars, wfVars>>

\* ------------------------------------------------------------------ listeners

\* RunService.register_listener: the callback is appended to the run's list.
RegisterListener(r, l) ==
    /\ created[r]
    /\ Len(listeners[r]) < MaxListeners
    /\ listeners' = [listeners EXCEPT ![r] = Append(@, l)]
    /\ UNCHANGED <<delivered, regVars, wfVars, restVars>>

\* register_listener with a callback made for the registration, as the event
\* stream handler does: the run's list does not hold it yet.
RegisterFreshListener(r, l) ==
    /\ Count(listeners[r], l) = 0
    /\ listeners' = [listeners EXCEPT ![r] = Append(@, l)]
    /\ UNCHANGED <<delivered, regVars, wfVars, restVars>>

\* s without its first x.
RemoveFirst(s, x) ==
    LET i == CHOOSE k \in 1..Len(s) : s[k] = x /\ \A j \in 1..(k - 1) : s[j] # x
    IN  SubSeq(s, 1, i - 1) \o SubSeq(s, i + 1, Len(s))

\* RunService.unregister_listener: the callback is removed from the run's
\* list, if it is there.
UnregisterListener(r, l) ==
    /\ listeners' = [listeners EXCEPT ![r] = IF Count(@, l) = 0 THEN @ ELSE RemoveFirst(@, l)]
    /\ UNCHANGED <<delivered, regVars, wfVars, restVars>>

\* ------------------------------------------------------------------ update_status, statement by statement

\* The event update_status builds for the call thread t is making.
EventOf(t) == Event("run.status", thr[t].status, thr[t].timestamp)

\* The number of update_status calls the threads have begun.
ThreadCalls == thr["workflow"].calls + thr["operator"].calls

\* update_status, lines 268-270: the run directory is resolved, the timestamp
\* taken and the history read from status_history.json.
UsBegin(t, r, status) ==
    /\ created[r]
    /\ thr[t].pc = "idle"
    /\ ThreadCalls < MaxThreadCalls
    /\ thr' = [thr EXCEPT ![t] = [@ EXCEPT !.pc = "write_history", !.status = status,
                                           !.calls = @ + 1,
                                           !.timestamp = clock[r],
                                           !.history = GetStatusHistory(r)]]
    /\ clock' = [clock EXCEPT ![r] = @ + 1]
    /\ UNCHANGED <<created, credsEmpty, manifestStatus, manifestHistory, manifestMeta,
                   summaryStatus, summaryHistory, historyFile, eventsFile, checkpoints,
                   opUpdates>>
    /\ UNCHANGED <<cfgVars, lsnVars, wfVars, poolVars, otherVars>>

\* update_status, lines 271-272: the entry is appended to the local history,
\* which is written to status_history.json.
UsWriteHistory(t, r) ==
    /\ thr[t].pc = "write_history"
    /\ LET history == Append(thr[t].history, Entry(thr[t].status, thr[t].timestamp))
       IN  /\ historyFile' = [historyFile EXCEPT ![r] = history]
           /\ thr' = [thr EXCEPT ![t] = [@ EXCEPT !.pc = "manifest", !.history = history]]
    /\ UNCHANGED <<created, credsEmpty, manifestStatus, manifestHistory, manifestMeta,
                   summaryStatus, summaryHistory, eventsFile, checkpoints, clock, opUpdates>>
    /\ UNCHANGED <<cfgVars, lsnVars, wfVars, poolVars, otherVars>>

\* update_status, lines 274-279: the manifest is read, its status set and the
\* manifest written (no metadata is passed by these callers).
UsWriteManifest(t, r) ==
    /\ thr[t].pc = "manifest"
    /\ manifestStatus' =
           [manifestStatus EXCEPT ![r] = ManifestStatusAfterUpdate(@, thr[t].status)]
    /\ thr' = [thr EXCEPT ![t].pc = "summary"]
    /\ UNCHANGED <<created, credsEmpty, manifestHistory, manifestMeta, summaryStatus,
                   summaryHistory, historyFile, eventsFile, checkpoints, clock, opUpdates>>
    /\ UNCHANGED <<cfgVars, lsnVars, wfVars, poolVars, otherVars>>

\* update_status, lines 281-286: the summary's status and status_history are
\* replaced and the summary written.
UsWriteSummary(t, r) ==
    /\ thr[t].pc = "summary"
    /\ summaryStatus' = [summaryStatus EXCEPT ![r] = thr[t].status]
    /\ summaryHistory' = [summaryHistory EXCEPT ![r] = thr[t].history]
    /\ thr' = [thr EXCEPT ![t].pc = "append_event"]
    /\ UNCHANGED <<created, credsEmpty, manifestStatus, manifestHistory, manifestMeta,
                   historyFile, eventsFile, checkpoints, clock, opUpdates>>
    /\ UNCHANGED <<cfgVars, lsnVars, wfVars, poolVars, otherVars>>

\* update_status, lines 288-296: the event is appended to events.jsonl.
UsAppendEvent(t, r) ==
    /\ thr[t].pc = "append_event"
    /\ eventsFile' = [eventsFile EXCEPT ![r] = Append(@, EventOf(t))]
    /\ thr' = [thr EXCEPT ![t].pc = "read_history"]
    /\ UNCHANGED <<created, credsEmpty, manifestStatus, manifestHistory, manifestMeta,
                   summaryStatus, summaryHistory, historyFile, checkpoints, clock, opUpdates>>
    /\ UNCHANGED <<cfgVars, lsnVars, wfVars, poolVars, otherVars>>

\* _append_status_history, line 385: status_history.json is read.
UsReadHistory(t, r) ==
    /\ thr[t].pc = "read_history"
    /\ thr' = [thr EXCEPT ![t] = [@ EXCEPT !.pc = "append_history", !.history = historyFile[r]]]
    /\ UNCHANGED <<cfgVars, regVars, lsnVars, wfVars, poolVars, otherVars>>

\* _append_status_history, lines 388-396: unless the last entry read has the
\* event's status, the entry is appended and the file written.
UsAppendHistory(t, r) ==
    /\ thr[t].pc = "append_history"
    /\ LET history == AppendStatusHistory(thr[t].history, EventOf(t))
       IN  historyFile' =
               [historyFile EXCEPT ![r] = IF history = thr[t].history THEN @ ELSE history]
    /\ thr' = [thr EXCEPT ![t].pc = "snapshot"]
    /\ UNCHANGED <<created, credsEmpty, manifestStatus, manifestHistory, manifestMeta,
                   summaryStatus, summaryHistory, eventsFile, checkpoints, clock, opUpdates>>
    /\ UNCHANGED <<cfgVars, lsnVars, wfVars, poolVars, otherVars>>

\* _notify_listeners, line 399: the run's list of callbacks is copied.
UsSnapshot(t, r) ==
    /\ thr[t].pc = "snapshot"
    /\ thr' = [thr EXCEPT ![t] = [@ EXCEPT !.pc = "notify", !.callbacks = listeners[r]]]
    /\ UNCHANGED <<cfgVars, regVars, lsnVars, wfVars, poolVars, otherVars>>

\* _notify_listeners, lines 400-401: the next callback of the copy is called.
UsNotify(t) ==
    /\ thr[t].pc = "notify"
    /\ thr[t].callbacks # <<>>
    /\ delivered' = [delivered EXCEPT ![Head(thr[t].callbacks)] = Append(@, EventOf(t))]
    /\ thr' = [thr EXCEPT ![t].callbacks = Tail(@)]
    /\ UNCHANGED <<listeners, cfgVars, regVars, wfVars, poolVars, otherVars>>

\* _notify_listeners has called every callback of the copy; update_status
\* returns.
UsReturn(t) ==
    /\ thr[t].pc = "notify"
    /\ thr[t].callbacks = <<>>
    /\ thr' = [thr EXCEPT ![t].pc = "idle"]
    /\ UNCHANGED <<cfgVars, regVars, lsnVars, wfVars, poolVars, otherVars>>

\* ------------------------------------------------------------------ event stream

\* The callback _stream_events makes and registers.
SseListener == "L2"

\* The status and timestamp a frame carries.
Frame(event) == [status |-> event.status, timestamp |-> event.timestamp]

\* The frames of a list of events.
Frames(events) == [i \in 1..Len(events) |-> Frame(events[i])]

SseFrame ==
    /\ UNCHANGED <<cfgVars, regVars, wfVars, poolVars, thr, idxVars, apiVars, notSseVars>>

\* _stream_events, lines 842-853: the history is read; an unknown run is
\* answered 404.
StreamOpen(r) ==
    /\ ssePc = "idle"
    /\ IF created[r]
       THEN /\ sseHistory' = GetStatusHistory(r)
            /\ ssePc' = "replay"
       ELSE /\ ssePc' = "done"
            /\ UNCHANGED sseHistory
    /\ UNCHANGED <<sseFrames, sseStop, clientOpen, lsnVars>>
    /\ SseFrame

\* _stream_events, lines 860-864: the history read is written to the client;
\* BrokenPipeError makes the handler return.
StreamReplay ==
    /\ ssePc = "replay"
    /\ IF clientOpen
       THEN /\ sseFrames' = sseFrames \o Frames(sseHistory)
            /\ ssePc' = "register"
       ELSE /\ ssePc' = "done"
            /\ UNCHANGED sseFrames
    /\ UNCHANGED <<sseHistory, sseStop, clientOpen, lsnVars>>
    /\ SseFrame

\* _stream_events, line 874: the listener is registered.
StreamRegister(r) ==
    /\ ssePc = "register"
    /\ listeners' = [listeners EXCEPT ![r] = Append(@, SseListener)]
    /\ ssePc' = "live"
    /\ UNCHANGED <<sseHistory, sseFrames, sseStop, clientOpen, delivered>>
    /\ SseFrame

\* _stream_events, lines 876-881: the loop ends when stop_event is set or the
\* write of a heartbeat fails (a heartbeat that is written changes nothing).
StreamLoopExit ==
    /\ ssePc = "live"
    /\ sseStop \/ ~clientOpen
    /\ ssePc' = "unregister"
    /\ UNCHANGED <<sseHistory, sseFrames, sseStop, clientOpen, lsnVars>>
    /\ SseFrame

\* A mutant of ListenersWithout: the list is left as it is.
ListenersKept(callbacks, l) == callbacks

\* unregister_listener, lines 304-310: the list without the callback.
ListenersWithout(callbacks, l) ==
    IF Count(callbacks, l) = 0 THEN callbacks ELSE RemoveFirst(callbacks, l)

\* _stream_events, lines 882-883: the finally clause unregisters the listener.
StreamUnregister(r) ==
    /\ ssePc = "unregister"
    /\ listeners' = [listeners EXCEPT ![r] = ListenersWithout(@, SseListener)]
    /\ ssePc' = "done"
    /\ UNCHANGED <<sseHistory, sseFrames, sseStop, clientOpen, delivered>>
    /\ SseFrame

\* The client closes the connection.
ClientClose ==
    /\ ssePc # "idle"
    /\ clientOpen
    /\ clientOpen' = FALSE
    /\ UNCHANGED <<ssePc, sseHistory, sseFrames, sseStop, lsnVars>>
    /\ SseFrame

\* _notify_listeners, lines 400-401, with the stream's listener among the
\* callbacks: the listener writes the frame, or sets stop_event when the write
\* raises BrokenPipeError (lines 868-872).
UsNotifyStream(t) ==
    /\ thr[t].pc = "notify"
    /\ thr[t].callbacks # <<>>
    /\ delivered' = [delivered EXCEPT ![Head(thr[t].callbacks)] = Append(@, EventOf(t))]
    /\ thr' = [thr EXCEPT ![t].callbacks = Tail(@)]
    /\ IF Head(thr[t].callbacks) # SseListener
       THEN UNCHANGED <<sseFrames, sseStop>>
       ELSE IF clientOpen
       THEN sseFrames' = Append(sseFrames, Frame(EventOf(t))) /\ UNCHANGED sseStop
       ELSE sseStop' = TRUE /\ UNCHANGED sseFrames
    /\ UNCHANGED <<ssePc, sseHistory, clientOpen>>
    /\ UNCHANGED <<listeners, cfgVars, regVars, wfVars, poolVars, idxVars, apiVars, notSseVars>>

\* ------------------------------------------------------------------ task runner

\* RunService.record_checkpoint: one line appended to the run's checkpoints.
RecordCheckpoint(r, cps) == [checkpoints EXCEPT ![r] = @ \o cps]

\* RunWorkflow._emit: one telemetry event (a failing sink is swallowed).
Emit(r, name) == [emitted EXCEPT ![r] = Append(@, name)]

\* A mutant of ExecuteAuth: a non-dict result and a result with success false
\* raise RetryableWorkflowError.
ExecuteAuthRetryable(result) ==
    CASE result = "success" -> "success"
      [] result = "success_false" -> "retryable"
      [] result = "non_dict" -> "retryable"
      [] result = "retryable" -> "retryable"
      [] OTHER -> "error"

\* RunWorkflow._execute_auth: how the activity function ends for what the
\* orchestrator's authenticate() did.  A non-dict result and a result with
\* success false raise WorkflowError, which is not RetryableWorkflowError.
ExecuteAuth(result) ==
    CASE result = "success" -> "success"
      [] result = "success_false" -> "error"
      [] result = "non_dict" -> "error"
      [] result = "retryable" -> "retryable"
      [] OTHER -> "error"

\* How func() of run_activity ends: _execute_auth for auth (which raises
\* WorkflowError before calling the orchestrator when the credentials are empty),
\* the collaborator's own outcome for exploration and crawl.
FuncOutcome(r, name, result) ==
    IF name = "auth"
    THEN IF credsEmpty[r] THEN "error" ELSE ExecuteAuth(result)
    ELSE result

\* Results the collaborator behind an activity can produce.
ResultsOf(name) == IF name = "auth" THEN AuthResults ELSE CollaboratorResults

\* The position of execute after run_activity returned for an activity.
AfterActivity(name) ==
    CASE name = "auth" -> "exploration"
      [] name = "exploration" -> "crawl"
      [] OTHER -> "complete"

\* The telemetry event emitted after an activity returned.
CompletedEvent(name) ==
    CASE name = "auth" -> "auth.completed"
      [] name = "exploration" -> "exploration.completed"
      [] OTHER -> "crawl.completed"

\* TemporalTaskRunner.run_activity up to its loop: attempt takes the first value
\* of range(1, max_attempts + 1).
EnterActivity(r, name) ==
    /\ activity' = [activity EXCEPT ![r] = name]
    /\ attempt' = [attempt EXCEPT ![r] = 1]
    /\ pc' = [pc EXCEPT ![r] = "attempt"]

\* run_activity, top of an iteration: the <A>.attempt checkpoint.
RecordAttempt(r) ==
    /\ pc[r] = "attempt"
    /\ attempt[r] <= maxAttempts
    /\ checkpoints' =
           RecordCheckpoint(r, <<Checkpoint(activity[r], "attempt", attempt[r], phase[r])>>)
    /\ pc' = [pc EXCEPT ![r] = "invoke"]
    /\ UNCHANGED <<created, credsEmpty, manifestStatus, manifestHistory, manifestMeta,
                   summaryStatus, summaryHistory, historyFile, eventsFile, clock, opUpdates>>
    /\ UNCHANGED <<phase, activity, attempt, calls, emitted>>
    /\ UNCHANGED <<restVars, lsnVars>>

\* run_activity when range(1, max_attempts + 1) is exhausted: the statements
\* after the loop raise (last_error, or WorkflowError when max_attempts is 0);
\* no checkpoint is recorded.
LoopExhausted(r) ==
    /\ pc[r] = "attempt"
    /\ attempt[r] > maxAttempts
    /\ pc' = [pc EXCEPT ![r] = "except"]
    /\ UNCHANGED <<phase, activity, attempt, calls, emitted>>
    /\ UNCHANGED <<restVars, regVars, lsnVars>>

\* A mutant of AfterInvoke: every exception is retried while attempts remain.
AfterInvokeRetryAll(outcome, n, limit) ==
    CASE outcome = "success" -> "return"
      [] n >= limit -> "raise"
      [] OTHER -> "continue"

\* A mutant of AfterInvoke: the last attempt is told by attempt > max_attempts.
AfterInvokeOffByOne(outcome, n, limit) ==
    CASE outcome = "success" -> "return"
      [] outcome = "retryable" /\ n > limit -> "raise"
      [] outcome = "retryable" -> "continue"
      [] OTHER -> "raise"

\* run_activity, what follows func() at attempt n of limit: the try statement's
\* normal end returns, RetryableWorkflowError continues the loop unless
\* attempt >= max_attempts, any other exception is raised.
AfterInvoke(outcome, n, limit) ==
    CASE outcome = "success" -> "return"
      [] outcome = "retryable" /\ n >= limit -> "raise"
      [] outcome = "retryable" -> "continue"
      [] OTHER -> "raise"

\* The checkpoints run_activity records after func() ended with outcome at
\* attempt n: <A>.succeeded, or <A>.retry (followed by <A>.failed when the error
\* is raised), or <A>.failed.
OutcomeCheckpoints(name, outcome, n, next) ==
    CASE outcome = "success" -> <<Checkpoint(name, "succeeded", n, "")>>
      [] outcome = "retryable" /\ next = "raise" ->
            <<Checkpoint(name, "retry", n, "RetryableWorkflowError"),
              Checkpoint(name, "failed", n, "RetryableWorkflowError")>>
      [] outcome = "retryable" ->
            <<Checkpoint(name, "retry", n, "RetryableWorkflowError")>>
      [] OTHER -> <<Checkpoint(name, "failed", n, "Exception")>>

\* The call of func() recorded in calls.
Call(r, result) ==
    [activity |-> activity[r], attempt |-> attempt[r], result |-> result,
     outcome |-> FuncOutcome(r, activity[r], result)]

\* What run_activity does after func() of run r ended for the collaborator's
\* result.
NextOf(r, result) == AfterInvoke(FuncOutcome(r, activity[r], result), attempt[r], maxAttempts)

\* run_activity: func() is called and returns; <A>.succeeded is recorded,
\* run_activity returns and execute emits the phase's completed event.
InvokeReturns(r, result) ==
    /\ pc[r] = "invoke"
    /\ result \in ResultsOf(activity[r])
    /\ NextOf(r, result) = "return"
    /\ calls' = [calls EXCEPT ![r] = Append(@, Call(r, result))]
    /\ checkpoints' =
           RecordCheckpoint(r,
               OutcomeCheckpoints(activity[r], Call(r, result).outcome, attempt[r], "return"))
    /\ emitted' = Emit(r, CompletedEvent(activity[r]))
    /\ pc' = [pc EXCEPT ![r] = AfterActivity(activity[r])]
    /\ UNCHANGED <<created, credsEmpty, manifestStatus, manifestHistory, manifestMeta,
                   summaryStatus, summaryHistory, historyFile, eventsFile, clock, opUpdates>>
    /\ UNCHANGED <<phase, activity, attempt>>
    /\ UNCHANGED <<restVars, lsnVars>>

\* run_activity: func() is called and raises, and the loop continues: <A>.retry
\* is recorded and the next attempt follows the (modelled as immediate) sleep.
InvokeContinues(r, result) ==
    /\ pc[r] = "invoke"
    /\ result \in ResultsOf(activity[r])
    /\ NextOf(r, result) = "continue"
    /\ calls' = [calls EXCEPT ![r] = Append(@, Call(r, result))]
    /\ checkpoints' =
           RecordCheckpoint(r,
               OutcomeCheckpoints(activity[r], Call(r, result).outcome, attempt[r], "continue"))
    /\ attempt' = [attempt EXCEPT ![r] = @ + 1]
    /\ pc' = [pc EXCEPT ![r] = "attempt"]
    /\ UNCHANGED <<created, credsEmpty, manifestStatus, manifestHistory, manifestMeta,
                   summaryStatus, summaryHistory, historyFile, eventsFile, clock, opUpdates>>
    /\ UNCHANGED <<phase, activity, emitted>>
    /\ UNCHANGED <<restVars, lsnVars>>

\* run_activity: func() is called and raises, and run_activity raises: <A>.failed
\* is recorded (after <A>.retry for RetryableWorkflowError) and the exception
\* reaches the except clause of execute.
InvokeRaises(r, result) ==
    /\ pc[r] = "invoke"
    /\ result \in ResultsOf(activity[r])
    /\ NextOf(r, result) = "raise"
    /\ calls' = [calls EXCEPT ![r] = Append(@, Call(r, result))]
    /\ checkpoints' =
           RecordCheckpoint(r,
               OutcomeCheckpoints(activity[r], Call(r, result).outcome, attempt[r], "raise"))
    /\ pc' = [pc EXCEPT ![r] = "except"]
    /\ UNCHANGED <<created, credsEmpty, manifestStatus, manifestHistory, manifestMeta,
                   summaryStatus, summaryHistory, historyFile, eventsFile, clock, opUpdates>>
    /\ UNCHANGED <<phase, activity, attempt, emitted>>
    /\ UNCHANGED <<restVars, lsnVars>>

\* ------------------------------------------------------------------ workflow

\* RunWorkflow._resolve_site_map: TRUE when it returns a site map.  given: the
\* caller passed site_map and adjacency; builderOk: the builder returns.
ResolveSiteMap(given, builderOk) ==
    IF given THEN TRUE
    ELSE IF ~builderSet THEN FALSE
    ELSE builderOk

\* RunWorkflow.execute from its first line to the try statement: the manifest is
\* read, the site map resolved, workflow.started recorded and emitted.
ExecuteStart(r, given, builderOk) ==
    /\ created[r]
    /\ pc[r] = "idle"
    /\ ResolveSiteMap(given, builderOk)
    /\ checkpoints' = RecordCheckpoint(r, <<Checkpoint("workflow", "started", 0, "")>>)
    /\ emitted' = Emit(r, "workflow.started")
    /\ phase' = [phase EXCEPT ![r] = "auth"]
    /\ pc' = [pc EXCEPT ![r] = "auth"]
    /\ UNCHANGED <<created, credsEmpty, manifestStatus, manifestHistory, manifestMeta,
                   summaryStatus, summaryHistory, historyFile, eventsFile, clock, opUpdates>>
    /\ UNCHANGED <<activity, attempt, calls>>
    /\ UNCHANGED <<restVars, lsnVars>>

\* RunWorkflow.execute when _resolve_site_map raises (no site map given and no
\* builder, or the builder raises): the call is made before the try statement,
\* so the exception leaves execute at once.
ExecuteSiteMapFails(r, given, builderOk) ==
    /\ created[r]
    /\ pc[r] = "idle"
    /\ ~ResolveSiteMap(given, builderOk)
    /\ pc' = [pc EXCEPT ![r] = "raised"]
    /\ UNCHANGED <<phase, activity, attempt, calls, emitted>>
    /\ UNCHANGED <<restVars, regVars, lsnVars>>

\* A mutant of AuthIsSkipped: only empty credentials skip the auth phase.
AuthIsSkippedWithoutCredentials(r) == credsEmpty[r]

\* The auth phase is skipped when the credentials are empty or the workflow has
\* no orchestrator.
AuthIsSkipped(r) == credsEmpty[r] \/ ~wfOrchestrator

\* execute, auth phase skipped: status AuthSkipped, auth.skipped recorded and
\* emitted.
AuthSkip(r) ==
    /\ pc[r] = "auth"
    /\ AuthIsSkipped(r)
    /\ UpdateStatus(r, "AuthSkipped", "auth")
    /\ checkpoints' =
           RecordCheckpoint(r,
               <<Checkpoint("auth", "skipped", 0,
                     IF credsEmpty[r] THEN "no_credentials" ELSE "orchestrator_unavailable")>>)
    /\ emitted' = Emit(r, "auth.skipped")
    /\ pc' = [pc EXCEPT ![r] = "exploration"]
    /\ UNCHANGED <<phase, activity, attempt, calls, opUpdates>>
    /\ UNCHANGED restVars

\* execute, auth phase: status AuthInProgress, then run_activity("auth").
AuthBegin(r) ==
    /\ pc[r] = "auth"
    /\ ~AuthIsSkipped(r)
    /\ UpdateStatus(r, "AuthInProgress", "auth")
    /\ EnterActivity(r, "auth")
    /\ UNCHANGED <<phase, calls, emitted, checkpoints, opUpdates>>
    /\ UNCHANGED restVars

\* execute, exploration phase: status ExplorationInProgress, then
\* run_activity("exploration").
ExplorationBegin(r) ==
    /\ pc[r] = "exploration"
    /\ phase' = [phase EXCEPT ![r] = "exploration"]
    /\ UpdateStatus(r, "ExplorationInProgress", "exploration")
    /\ EnterActivity(r, "exploration")
    /\ UNCHANGED <<calls, emitted, checkpoints, opUpdates>>
    /\ UNCHANGED restVars

\* execute, crawl phase: status CrawlInProgress, then run_activity("crawl").
CrawlBegin(r) ==
    /\ pc[r] = "crawl"
    /\ phase' = [phase EXCEPT ![r] = "crawl"]
    /\ UpdateStatus(r, "CrawlInProgress", "crawl")
    /\ EnterActivity(r, "crawl")
    /\ UNCHANGED <<calls, emitted, checkpoints, opUpdates>>
    /\ UNCHANGED restVars

\* execute, end of the try block: status Completed, workflow.completed recorded
\* and emitted, the result returned.
Complete(r) ==
    /\ pc[r] = "complete"
    /\ phase' = [phase EXCEPT ![r] = "completed"]
    /\ UpdateStatus(r, "Completed", "completed")
    /\ checkpoints' = RecordCheckpoint(r, <<Checkpoint("workflow", "completed", 0, "")>>)
    /\ emitted' = Emit(r, "workflow.completed")
    /\ pc' = [pc EXCEPT ![r] = "returned"]
    /\ UNCHANGED <<activity, attempt, calls, opUpdates>>
    /\ UNCHANGED restVars

\* execute, the except clause: workflow.failed recorded, status Failed,
\* workflow.failed emitted, the exception raised again.
Fail(r) ==
    /\ pc[r] = "except"
    /\ checkpoints' = RecordCheckpoint(r, <<Checkpoint("workflow", "failed", 0, phase[r])>>)
    /\ UpdateStatus(r, "Failed", phase[r])
    /\ emitted' = Emit(r, "workflow.failed")
    /\ pc' = [pc EXCEPT ![r] = "raised"]
    /\ UNCHANGED <<phase, activity, attempt, calls, opUpdates>>
    /\ UNCHANGED restVars

\* One step of the workflow of run r, after execute started.
WorkflowStep(r) ==
    \/ AuthSkip(r)
    \/ AuthBegin(r)
    \/ RecordAttempt(r)
    \/ LoopExhausted(r)
    \/ \E result \in AuthResults : InvokeReturns(r, result)
    \/ \E result \in AuthResults : InvokeContinues(r, result)
    \/ \E result \in AuthResults : InvokeRaises(r, result)
    \/ ExplorationBegin(r)
    \/ CrawlBegin(r)
    \/ Complete(r)
    \/ Fail(r)

\* ------------------------------------------------------------------ HTTP API

\* The bearer tokens of the registry.
Tokens == {"tok-runner", "tok-viewer", "tok-admin", "tok-wild", "tok-star", "tok-raw"}

\* What a request carries as its token: a token of the registry, one that is
\* not in it, or none.
Requesters == Tokens \cup {"tok-unknown", "none"}

\* security.ROLE_DEFAULT_SCOPES and DEFAULT_OPEN_SCOPES.
RunnerScopes == {"runs:create", "runs:read", "runs:events"}
ViewerScopes == {"runs:read", "runs:events"}
AdminScopes == {"runs:create", "runs:read", "runs:events", "runs:read:all"}
DefaultOpenScopes == {"runs:create", "runs:read", "runs:events", "runs:read:all"}

\* The token registry, its entries as normalize_registry_entry leaves them: the
\* organization_slug is stripped of surrounding blanks and otherwise kept.
TokenRegistry ==
    [t \in Tokens |->
        CASE t = "tok-runner" -> [organization_slug |-> "acme", scopes |-> RunnerScopes]
          [] t = "tok-viewer" -> [organization_slug |-> "beta", scopes |-> ViewerScopes]
          [] t = "tok-admin" -> [organization_slug |-> "default", scopes |-> AdminScopes]
          [] t = "tok-wild" -> [organization_slug |-> "beta", scopes |-> {"runs:*"}]
          [] t = "tok-star" -> [organization_slug |-> "acme", scopes |-> {"*"}]
          [] t = "tok-raw" -> [organization_slug |-> "Acme_QA", scopes |-> RunnerScopes]]

\* The principal _require_scope returns when no token is required.
OpenPrincipal == [organization_slug |-> "default", scopes |-> DefaultOpenScopes]

\* No principal: _require_scope returned None.
NoPrincipal == [organization_slug |-> "", scopes |-> {}]

\* The organization_slug values a payload of POST /runs carries ("": none).
RequestedSlugs == {"", "acme", "beta", "Acme_QA"}

\* models._normalize_slug on the slugs above: the value is lowercased, "_" and
\* every character outside [a-z0-9-] become "-", runs of "-" collapse.
NormalizeSlug(value) ==
    CASE value = "" -> "default"
      [] value = "Acme_QA" -> "acme-qa"
      [] OTHER -> value

\* CreateRunPayload.from_dict, lines 93-101, for a payload without organization.
FromDictSlug(slugInput) == IF slugInput = "" THEN "default" ELSE NormalizeSlug(slugInput)

\* A mutant of ScopeAllows: any scope allows every endpoint.
ScopeAllowsAny(scopes, scope) == scopes # {}

\* _require_scope, line 286: the scope set allows the endpoint's scope.
ScopeAllows(scopes, scope) == scope \in scopes \/ "runs:*" \in scopes \/ "*" \in scopes

\* RunRequestHandler._require_scope: code 0 stands for a returned principal.
RequireScope(scope, token) ==
    IF ~authRequired
    THEN [code |-> 0, reason |-> "", principal |-> OpenPrincipal]
    ELSE IF token \notin Tokens
    THEN [code |-> 401, reason |-> "unauthorized", principal |-> NoPrincipal]
    ELSE IF ~ScopeAllows(TokenRegistry[token].scopes, scope)
    THEN [code |-> 403, reason |-> "insufficient_scope", principal |-> NoPrincipal]
    ELSE [code |-> 0, reason |-> "", principal |-> TokenRegistry[token]]

\* A mutant of PrincipalCanAccessOrg: the organization is not compared.
PrincipalCanAccessAnyOrg(principal, slug) == TRUE

\* RunRequestHandler._principal_can_access_org, for a principal that is not None.
PrincipalCanAccessOrg(principal, slug) ==
    \/ ~authRequired
    \/ "runs:read:all" \in principal.scopes
    \/ "runs:*" \in principal.scopes
    \/ "*" \in principal.scopes
    \/ principal.organization_slug = slug

\* RunService.get_run_metadata: the organization_slug of the index entry or,
\* without one, of the manifest.
RunMetadataSlug(r) == IF index[r] # NoEntry THEN index[r] ELSE manifestSlug[r]

\* RunRequestHandler._get_run_metadata_for_principal: code 0 stands for the
\* metadata being returned.
RunAccess(r, principal) ==
    IF index[r] = NoEntry /\ ~created[r]
    THEN [code |-> 404, reason |-> "not_found"]
    ELSE IF ~PrincipalCanAccessOrg(principal, RunMetadataSlug(r))
    THEN [code |-> 403, reason |-> "organization_mismatch"]
    ELSE [code |-> 0, reason |-> ""]

\* No request is being served.
NoResponse ==
    [ep |-> "none", token |-> "none", run |-> "none", code |-> 0, reason |-> "",
     served |-> "none", listed |-> {}]

\* A response: served is the run whose data the body carries, listed the ids
\* of the runs a listing carries.
Response(ep, token, r, code, reason, served, listed) ==
    [ep |-> ep, token |-> token, run |-> r, code |-> code, reason |-> reason,
     served |-> served, listed |-> listed]

\* The handler answers and changes nothing.
Respond(response) ==
    /\ resp' = response
    /\ UNCHANGED <<authRequired, creator, cfgVars, regVars, lsnVars, wfVars, poolVars, thr,
                   idxVars, fnVars>>

\* The response has been sent and the handler returns.
ApiFinish ==
    /\ resp # NoResponse
    /\ Respond(NoResponse)

\* The id create_run generates: ids are fresh, and the runs are taken in order.
NextRunId == IF ~created["r1"] THEN "r1" ELSE "r2"

\* The status updates made through the API so far.
ApiUpdates == opUpdates["r1"] + opUpdates["r2"]

\* The checkpoints recorded through the API so far.
ApiCheckpoints == Len(checkpoints["r1"]) + Len(checkpoints["r2"])

\* do_POST, path /runs (the server has no executor and no workflow).  r is the
\* id create_run generates, requested the payload's organization_slug.
ApiPostRuns(token, r, bodyOk, valid, requested) ==
    LET auth == RequireScope("runs:create", token)
        ep == "POST /runs"
        slug == IF authRequired THEN auth.principal.organization_slug ELSE requested
    IN  /\ resp = NoResponse
        /\ \/ /\ auth.code # 0
              /\ Respond(Response(ep, token, "none", auth.code, auth.reason, "none", {}))
           \/ /\ auth.code = 0
              /\ ~bodyOk
              /\ Respond(Response(ep, token, "none", 400, "invalid_json", "none", {}))
           \/ /\ auth.code = 0
              /\ bodyOk
              /\ authRequired /\ requested # "" /\ requested # auth.principal.organization_slug
              /\ Respond(Response(ep, token, "none", 403, "organization_mismatch", "none", {}))
           \/ /\ auth.code = 0
              /\ bodyOk
              /\ ~(authRequired /\ requested # "" /\ requested # auth.principal.organization_slug)
              /\ ~valid
              /\ Respond(Response(ep, token, "none", 400, "validation_failed", "none", {}))
           \/ /\ auth.code = 0
              /\ bodyOk
              /\ ~(authRequired /\ requested # "" /\ requested # auth.principal.organization_slug)
              /\ valid
              /\ r = NextRunId
              /\ CreateRunAs(r, TRUE, TRUE, FromDictSlug(slug))
              /\ resp' = Response(ep, token, r, 201, "", r, {})
              /\ creator' = [creator EXCEPT ![r] = token]
              /\ UNCHANGED <<authRequired, fnVars>>

\* do_GET, path /runs: _send_paginated_runs with the default offset and a
\* limit that holds every run.
ApiGetRuns(token) ==
    LET auth == RequireScope("runs:read", token)
        ep == "GET /runs"
        runs == {e \in ListRuns : PrincipalCanAccessOrg(auth.principal, e.organization_slug)}
    IN  /\ resp = NoResponse
        /\ IF auth.code # 0
           THEN Respond(Response(ep, token, "none", auth.code, auth.reason, "none", {}))
           ELSE Respond(Response(ep, token, "none", 200, "", "none", {e.id : e \in runs}))

\* The GET endpoints of a run and the scope each requires.
RunReads ==
    {[ep |-> "GET /runs/{id}", scope |-> "runs:read"],
     [ep |-> "GET /runs/{id}/artifacts", scope |-> "runs:read"],
     [ep |-> "GET /runs/{id}/events", scope |-> "runs:read"],
     [ep |-> "GET /runs/{id}/events/stream", scope |-> "runs:events"]}

\* do_GET, paths /runs/{id}, /runs/{id}/artifacts, /runs/{id}/events and
\* /runs/{id}/events/stream (up to the replay of the history).
ApiGetRun(token, r, read) ==
    LET auth == RequireScope(read.scope, token)
        access == RunAccess(r, auth.principal)
    IN  /\ resp = NoResponse
        /\ IF auth.code # 0
           THEN Respond(Response(read.ep, token, r, auth.code, auth.reason, "none", {}))
           ELSE IF access.code # 0
           THEN Respond(Response(read.ep, token, r, access.code, access.reason, "none", {}))
           ELSE Respond(Response(read.ep, token, r, 200, "", r, {}))

\* do_POST, path /runs/{id}/status.
ApiPostStatus(token, r, bodyOk, status) ==
    LET auth == RequireScope("runs:create", token)
        access == RunAccess(r, auth.principal)
        ep == "POST /runs/{id}/status"
    IN  /\ resp = NoResponse
        /\ \/ /\ auth.code # 0
              /\ Respond(Response(ep, token, r, auth.code, auth.reason, "none", {}))
           \/ /\ auth.code = 0
              /\ access.code # 0
              /\ Respond(Response(ep, token, r, access.code, access.reason, "none", {}))
           \/ /\ auth.code = 0
              /\ access.code = 0
              /\ ~bodyOk
              /\ Respond(Response(ep, token, r, 400, "missing_status", "none", {}))
           \/ /\ auth.code = 0
              /\ access.code = 0
              /\ bodyOk
              /\ ApiUpdates < MaxApiUpdates
              /\ UpdateStatus(r, status, "")
              /\ opUpdates' = [opUpdates EXCEPT ![r] = @ + 1]
              /\ resp' = Response(ep, token, r, 200, "", "none", {})
              /\ UNCHANGED <<checkpoints, authRequired, creator, cfgVars, wfVars, poolVars, thr,
                             idxVars, fnVars>>

\* do_POST, path /runs/{id}/checkpoints.
ApiPostCheckpoint(token, r, bodyOk) ==
    LET auth == RequireScope("runs:create", token)
        access == RunAccess(r, auth.principal)
        ep == "POST /runs/{id}/checkpoints"
    IN  /\ resp = NoResponse
        /\ \/ /\ auth.code # 0
              /\ Respond(Response(ep, token, r, auth.code, auth.reason, "none", {}))
           \/ /\ auth.code = 0
              /\ access.code # 0
              /\ Respond(Response(ep, token, r, access.code, access.reason, "none", {}))
           \/ /\ auth.code = 0
              /\ access.code = 0
              /\ ~bodyOk
              /\ Respond(Response(ep, token, r, 400, "missing_checkpoint", "none", {}))
           \/ /\ auth.code = 0
              /\ access.code = 0
              /\ bodyOk
              /\ ApiCheckpoints < MaxApiCheckpoints
              /\ checkpoints' = RecordCheckpoint(r, <<Checkpoint("operator", "note", 0, "")>>)
              /\ resp' = Response(ep, token, r, 200, "", "none", {})
              /\ UNCHANGED <<created, credsEmpty, manifestStatus, manifestHistory, manifestMeta,
                             summaryStatus, summaryHistory, historyFile, eventsFile, clock,
                             opUpdates>>
              /\ UNCHANGED <<authRequired, creator, cfgVars, lsnVars, wfVars, poolVars, thr, idxVars,
                             fnVars>>

\* ------------------------------------------------------------------ artifact paths

\* The result of a call not made yet.
NotCalled == [status |-> "pending", path |-> <<>>]

\* File names, as their characters.  RunDirName is the run's directory, under
\* the organization directory OrgDirName of the storage root RootDirName.
RootDirName == <<"s">>
OrgDirName == <<"o">>
RunDirName == <<"R", "1">>

\* The segments of the relative paths: "..", ".", the run directory's name, the
\* name of a sibling that begins with it, a file name and the names above.
PathSegments ==
    {<<".", ".">>, <<".">>, RunDirName, <<"R", "1", "0">>, <<"a">>, OrgDirName, RootDirName}

\* The run directory, as _resolve_run_dir returns it.
RunDir == <<RootDirName, OrgDirName, RunDirName>>

\* Path.resolve on the segments still to apply to an absolute path without
\* symbolic links: "." is dropped and ".." removes the last segment, if any.
RECURSIVE ResolveFrom(_, _)
ResolveFrom(done, todo) ==
    IF todo = <<>>
    THEN done
    ELSE LET seg == Head(todo)
         IN  IF seg = <<".">>
             THEN ResolveFrom(done, Tail(todo))
             ELSE IF seg = <<".", ".">>
             THEN ResolveFrom(IF done = <<>> THEN done ELSE SubSeq(done, 1, Len(done) - 1),
                              Tail(todo))
             ELSE ResolveFrom(Append(done, seg), Tail(todo))

\* (run_dir / relative_path).resolve(): an absolute relative_path replaces run_dir.
Candidate(arg) == ResolveFrom(IF arg.absolute THEN <<>> ELSE RunDir, arg.segments)

\* str(path): the characters of an absolute path.
RECURSIVE PathStr(_)
PathStr(path) ==
    IF path = <<>>
    THEN <<"/">>
    ELSE IF Len(path) = 1
    THEN <<"/">> \o path[1]
    ELSE PathStr(SubSeq(path, 1, Len(path) - 1)) \o <<"/">> \o path[Len(path)]

\* str.startswith.
StartsWith(str, prefix) ==
    /\ Len(prefix) <= Len(str)
    /\ SubSeq(str, 1, Len(prefix)) = prefix

\* RunService.get_artifact_path without organization_slug, for an existing run:
\* the resolved candidate, or status "invalid" for ValueError("invalid artifact path").
GetArtifactPathOf(arg) ==
    LET candidate == Candidate(arg)
        base == ResolveFrom(<<>>, RunDir)
    IN  IF ~StartsWith(PathStr(candidate), PathStr(base))
        THEN [status |-> "invalid", path |-> <<>>]
        ELSE [status |-> "returned", path |-> candidate]

\* One call of get_artifact_path.
GetArtifactPath ==
    /\ pathResult = NotCalled
    /\ pathResult' = GetArtifactPathOf(pathArg)
    /\ UNCHANGED <<pathArg, notPathVars>>
    /\ UNCHANGED <<cfgVars, regVars, lsnVars, wfVars, poolVars, thr, idxVars, apiVars>>

\* ------------------------------------------------------------------ signed downloads

\* The signing keys.
Keys == {"k1", "k2"}

\* The key rings: sequences of distinct keys.
KeyRings ==
    {<<>>} \cup {<<k>> : k \in Keys}
        \cup (IF MaxRing < 2 THEN {} ELSE {<<j, k>> : j, k \in Keys} \ {<<k, k>> : k \in Keys})

\* The decimal digits, as the characters of the expires parameter.
DigitChars == <<"0", "1", "2", "3", "4", "5", "6", "7", "8", "9">>

\* str(n) for a natural number n.
RECURSIVE Dec(_)
Dec(n) == IF n < 10 THEN <<DigitChars[n + 1]>> ELSE Append(Dec(n \div 10), DigitChars[(n % 10) + 1])

\* The value of a digit character.
DigitValue(c) == (CHOOSE i \in 1..10 : DigitChars[i] = c) - 1

\* int(text) for a non-empty text: leading zeros are accepted, any other
\* character raises ValueError.
RECURSIVE IntOf(_)
IntOf(text) ==
    IF text = <<>> THEN 0 ELSE 10 * IntOf(SubSeq(text, 1, Len(text) - 1)) + DigitValue(text[Len(text)])

ParsesAsInt(text) == \A i \in 1..Len(text) : \E j \in 1..10 : DigitChars[j] = text[i]

\* _sign_path: the HMAC-SHA256 of "run_id:organization_slug:path:expires" under
\* key, as the pair of the key and the signed fields (no two messages of the
\* fields used here are the same string, and no two digests collide).
SignPath(key, runId, slug, path, expires) == <<key, runId, slug, path, Dec(expires)>>

\* The paths of download URLs: an artifact of the run and another file name.
UrlPaths == {"events.jsonl", "other.bin"}

\* No URL, and no download.
NoUrl == [run_id |-> "none", organization_slug |-> "", path |-> "", expires |-> <<>>,
          signature |-> <<>>]

NoDownload == [url |-> NoUrl, code |-> 0, reason |-> "", exists |-> FALSE]

\* _send_artifacts, lines 628-654: the download URL of one manifest entry of
\* run r, signed under the primary key.
IssueUrl(r, path) ==
    LET slug == RunMetadataSlug(r)
        expires == now + SigningTtl
    IN  /\ created[r]
        /\ ring # <<>>
        /\ url = NoUrl
        /\ dl = NoDownload
        /\ url' = [run_id |-> r, organization_slug |-> slug, path |-> path,
                   expires |-> Dec(expires),
                   signature |-> SignPath(ring[1], r, slug, path, expires)]
        /\ UNCHANGED <<ring, now, dl, notUrlVars>>
        /\ UNCHANGED <<cfgVars, regVars, lsnVars, wfVars, poolVars, thr, idxVars, apiVars>>

\* SecretsManager.get_signing_keys after the signing key file was rewritten.
RotateKeys(keys) ==
    /\ dl = NoDownload
    /\ keys # ring
    /\ ring' = keys
    /\ UNCHANGED <<now, url, dl, notUrlVars>>
    /\ UNCHANGED <<cfgVars, regVars, lsnVars, wfVars, poolVars, thr, idxVars, apiVars>>

\* A second passes.
Tick ==
    /\ dl = NoDownload
    /\ now < MaxNow
    /\ now' = now + 1
    /\ UNCHANGED <<ring, url, dl, notUrlVars>>
    /\ UNCHANGED <<cfgVars, regVars, lsnVars, wfVars, poolVars, thr, idxVars, apiVars>>

\* A mutant of SignatureVerifies: only the primary key verifies.
SignatureVerifiesPrimary(u, expires) ==
    u.signature = SignPath(ring[1], u.run_id, u.organization_slug, u.path, expires)

\* _serve_signed_artifact, lines 727-734: some key of the ring verifies.
SignatureVerifies(u, expires) ==
    \E i \in 1..Len(ring) :
        u.signature = SignPath(ring[i], u.run_id, u.organization_slug, u.path, expires)

\* _serve_signed_artifact for the parameters u; exists tells whether the file
\* of the artifact exists.  Code 500 stands for the FileNotFoundError that
\* get_run_metadata raises for an unknown run and the handler does not catch.
ServeSignedArtifact(u, exists) ==
    LET answer(code, reason) == [url |-> u, code |-> code, reason |-> reason, exists |-> exists]
    IN  IF ring = <<>>
        THEN answer(400, "signing_disabled")
        ELSE IF \/ u.run_id = "" \/ u.organization_slug = "" \/ u.path = ""
                \/ u.signature = <<>> \/ u.expires = <<>>
        THEN answer(400, "missing_parameters")
        ELSE IF ~ParsesAsInt(u.expires)
        THEN answer(400, "invalid_expires")
        ELSE IF IntOf(u.expires) < now
        THEN answer(401, "expired_signature")
        ELSE IF u.run_id \notin Runs \/ ~created[u.run_id]
        THEN answer(500, "run_not_found")
        ELSE IF RunMetadataSlug(u.run_id) # u.organization_slug
        THEN answer(403, "invalid_organization")
        ELSE IF ~SignatureVerifies(u, IntOf(u.expires))
        THEN answer(401, "invalid_signature")
        ELSE IF ~exists
        THEN answer(404, "not_found")
        ELSE answer(200, "")

\* The keys of the ring.
RingKeys == {ring[i] : i \in 1..Len(ring)}

\* The URLs that differ from u in at most one parameter and that a client
\* holding no key of the ring can write.
Variations(u) ==
    {u}
    \cup {[u EXCEPT !.run_id = r] : r \in Runs \cup {"r9"}}
    \cup {[u EXCEPT !.organization_slug = g] : g \in {"acme", "beta"}}
    \cup {[u EXCEPT !.path = q] : q \in UrlPaths}
    \cup {[u EXCEPT !.expires = e] :
             e \in {<<>>, <<"x">>, <<"0">> \o u.expires, Dec(IntOf(u.expires) + 1),
                    Dec(MaxNow + SigningTtl + 1)}}
    \cup {[u EXCEPT !.signature = g] :
             g \in {<<>>} \cup {[u.signature EXCEPT ![1] = k] : k \in (Keys \cup {"k9"}) \ RingKeys}}

\* GET /runs/public/download with the URL issued or one that differs from it
\* in one parameter.
Download(u, exists) ==
    /\ url # NoUrl
    /\ dl = NoDownload
    /\ dl' = ServeSignedArtifact(u, exists)
    /\ UNCHANGED <<ring, now, url, notUrlVars>>
    /\ UNCHANGED <<cfgVars, regVars, lsnVars, wfVars, poolVars, thr, idxVars, apiVars>>

\* The response has been sent.
DownloadFinish ==
    /\ dl # NoDownload
    /\ dl' = NoDownload
    /\ UNCHANGED <<ring, now, url, notUrlVars>>
    /\ UNCHANGED <<cfgVars, regVars, lsnVars, wfVars, poolVars, thr, idxVars, apiVars>>

\* create_run for the next run, of organization slug.
UrlCreateRun(r, slug) ==
    /\ r = NextRunId
    /\ dl = NoDownload
    /\ CreateRunAs(r, TRUE, TRUE, slug)
    /\ UNCHANGED extVars

\* ------------------------------------------------------------------ exploration

\* str.lower() of one character.
LowerChar(c) ==
    CASE c = "D" -> "d" [] c = "E" -> "e" [] c = "H" -> "h" [] c = "L" -> "l" [] OTHER -> c

\* str.lower().
Lower(text) == [i \in 1..Len(text) |-> LowerChar(text[i])]

\* needle in haystack, for strings.
Contains(haystack, needle) ==
    \E i \in 0..(Len(haystack) - Len(needle)) :
        \A j \in 1..Len(needle) : haystack[i + j] = needle[j]

\* The page descriptors: their URL and title, as strings of characters.
PageDescriptors ==
    { [url |-> <<"a">>, title |-> <<"b">>],
      [url |-> <<"a", "d", "e">>, title |-> <<"b">>],
      [url |-> <<"c">>, title |-> <<"D", "e">>],
      [url |-> <<"d">>, title |-> <<"e">>] }

\* The lists of destructive keywords of the configurations.
KeywordLists == { <<>>, << <<"d", "e">> >>, << <<>>, <<"D", "E">> >> }

\* The coverage thresholds, as fractions: 1/4, 1/2, 3/4 and 1, the floats of
\* (0, 1] whose products with a length are exact.
Thresholds == { [num |-> n, den |-> 4] : n \in 1..4 }

ExplorationConfigs ==
    [coverage_threshold : Thresholds, max_pages_per_run : 0..MaxPageLimit,
     destructive_keywords : KeywordLists]

\* The lists of at most n pages.
RECURSIVE PageListsUpTo(_)
PageListsUpTo(n) ==
    IF n = 0 THEN {<<>>}
    ELSE LET shorter == PageListsUpTo(n - 1)
         IN  shorter \cup {Append(l, p) : l \in {k \in shorter : Len(k) = n - 1}, p \in PageDescriptors}

Max(a, b) == IF a >= b THEN a ELSE b

Min(a, b) == IF a <= b THEN a ELSE b

\* A mutant of Budget: the coverage threshold is ignored.
BudgetOfAll(pages, config) == Len(pages)

\* explore, line 87: max(1, int(len(pages) * coverage_threshold)).
Budget(pages, config) ==
    Max(1, (Len(pages) * config.coverage_threshold.num) \div config.coverage_threshold.den)

\* explore, lines 134 and 138: round(len(visited) / len(pages), 4), in
\* ten-thousandths; no quotient of the page counts here lies halfway between
\* two of them.
CoveragePercent(visitedCount, total) == (2 * 10000 * visitedCount + total) \div (2 * total)

\* pages[:budget] and pages[budget:].
CandidatePages == SubSeq(expPages, 1, Min(Budget(expPages, expConfig), Len(expPages)))

BaselineSkipped ==
    SubSeq(expPages, Min(Budget(expPages, expConfig), Len(expPages)) + 1, Len(expPages))

\* A mutant of MatchKeyword: the haystack is not lower-cased.
RECURSIVE MatchKeywordCased(_, _)
MatchKeywordCased(page, keywords) ==
    IF keywords = <<>> THEN <<>>
    ELSE IF Head(keywords) # <<>>
            /\ Contains(page.url \o <<" ">> \o page.title, Lower(Head(keywords)))
         THEN Lower(Head(keywords))
         ELSE MatchKeywordCased(page, Tail(keywords))

\* _match_keyword: the first non-empty keyword, lower-cased, that the
\* lower-cased "url title" contains; the empty string stands for None.
RECURSIVE MatchKeyword(_, _)
MatchKeyword(page, keywords) ==
    IF keywords = <<>> THEN <<>>
    ELSE IF Head(keywords) # <<>>
            /\ Contains(Lower(page.url \o <<" ">> \o page.title), Lower(Head(keywords)))
         THEN Lower(Head(keywords))
         ELSE MatchKeyword(page, Tail(keywords))

\* _rate_limited.
RateLimited(processedCount) ==
    IF expConfig.max_pages_per_run <= 0 THEN FALSE
    ELSE processedCount >= expConfig.max_pages_per_run

\* _guardrail_event.
GuardrailEvent(type, page, keyword) == [type |-> type, page |-> page, keyword |-> keyword]

Elements(seq) == {seq[i] : i \in 1..Len(seq)}

\* explore, line 131: skipped.extend(page for page in candidate_pages if page
\* not in visited and page not in skipped), the generator reading skipped as
\* it grows.
RECURSIVE ExtendWithUnseen(_, _, _)
ExtendWithUnseen(skipped, candidates, visited) ==
    IF candidates = <<>> THEN skipped
    ELSE IF Head(candidates) \notin Elements(visited) /\ Head(candidates) \notin Elements(skipped)
         THEN ExtendWithUnseen(Append(skipped, Head(candidates)), Tail(candidates), visited)
         ELSE ExtendWithUnseen(skipped, Tail(candidates), visited)

\* explore has not started.
ExploreNotStarted ==
    /\ expPc = "start"
    /\ expIdx = 0
    /\ expVisited = <<>>
    /\ expSkipped = <<>>
    /\ expEvents = <<>>
    /\ expRateLimited = FALSE
    /\ expFiles = {}

ExploreFrame ==
    /\ UNCHANGED notExpVars
    /\ UNCHANGED <<cfgVars, regVars, lsnVars, wfVars, poolVars, thr, idxVars, apiVars>>

\* explore, lines 84-94: an empty site map raises ValueError.
ExploreStart ==
    /\ expPc = "start"
    /\ expPc' = IF expPages = <<>> THEN "raised" ELSE "loop"
    /\ UNCHANGED <<expConfig, expPages, expIdx, expVisited, expSkipped, expEvents,
                   expRateLimited, expFiles>>
    /\ ExploreFrame

\* explore, lines 96-128: one iteration of the loop over candidate_pages.
ExploreLoop ==
    /\ expPc = "loop"
    /\ expIdx < Len(CandidatePages)
    /\ LET page == CandidatePages[expIdx + 1]
           keyword == MatchKeyword(page, expConfig.destructive_keywords)
       IN  IF keyword # <<>>
           THEN /\ expEvents' = Append(expEvents, GuardrailEvent("blocklist", page, keyword))
                /\ expSkipped' = Append(expSkipped, page)
                /\ expIdx' = expIdx + 1
                /\ UNCHANGED <<expVisited, expRateLimited, expPc>>
           ELSE IF RateLimited(Len(expVisited))
           THEN /\ expEvents' = Append(expEvents, GuardrailEvent("rate_limit", page, <<>>))
                /\ expSkipped' = Append(expSkipped, page)
                                     \o SubSeq(CandidatePages, expIdx + 2, Len(CandidatePages))
                /\ expRateLimited' = TRUE
                /\ expPc' = "after"
                /\ UNCHANGED <<expVisited, expIdx>>
           ELSE /\ expVisited' = Append(expVisited, page)
                /\ expIdx' = expIdx + 1
                /\ UNCHANGED <<expSkipped, expEvents, expRateLimited, expPc>>
    /\ UNCHANGED <<expConfig, expPages, expFiles>>
    /\ ExploreFrame

\* The loop is over.
ExploreLoopEnd ==
    /\ expPc = "loop"
    /\ expIdx = Len(CandidatePages)
    /\ expPc' = "after"
    /\ UNCHANGED <<expConfig, expPages, expIdx, expVisited, expSkipped, expEvents,
                   expRateLimited, expFiles>>
    /\ ExploreFrame

\* explore, lines 130-144, and _persist.
ExploreFinish ==
    /\ expPc = "after"
    /\ expSkipped' =
          (IF expRateLimited THEN expSkipped
           ELSE ExtendWithUnseen(expSkipped, CandidatePages, expVisited)) \o BaselineSkipped
    /\ expFiles' = {"coverage_report.json", "visited_pages.jsonl", "skipped_pages.jsonl"}
                      \cup (IF expEvents # <<>> THEN {"guardrails.jsonl"} ELSE {})
    /\ expPc' = "done"
    /\ UNCHANGED <<expConfig, expPages, expIdx, expVisited, expEvents, expRateLimited>>
    /\ ExploreFrame

\* ------------------------------------------------------------------ BFS crawl

\* The pages of the crawled site: two whose URLs differ in case only, a plain
\* one, one with a destructive keyword and one with a skip keyword.
HomePage == [page_id |-> "home", url |-> <<"h">>, title |-> <<"b">>]

HomeUpperPage == [page_id |-> "home-upper", url |-> <<"H">>, title |-> <<"b">>]

AboutPage == [page_id |-> "about", url |-> <<"a">>, title |-> <<"b">>]

DeletePage == [page_id |-> "delete", url |-> <<"d", "e">>, title |-> <<"b">>]

LogoutPage == [page_id |-> "logout", url |-> <<"L", "o">>, title |-> <<"b">>]

\* parent is None.
NoParent == [page_id |-> "None", url |-> <<>>, title |-> <<>>]

\* The page ids that have links in an adjacency map.
LinkingPageIds == {"home", "home-upper", "about"}

\* The lists of links of a page.
ChildLists ==
    { <<>>,
      <<AboutPage>>,
      <<AboutPage, HomePage>>,
      <<HomeUpperPage, AboutPage>>,
      <<DeletePage, AboutPage>>,
      <<LogoutPage, AboutPage, AboutPage>> }

\* The seed lists.
SeedLists ==
    { <<>>, <<HomePage>>, <<HomePage, AboutPage>>, <<DeletePage, HomePage>>,
      <<HomeUpperPage, HomePage>> }

CrawlConfigs ==
    [max_depth : 0..MaxDepth, max_nodes_per_run : 0..MaxNodeLimit,
     destructive_keywords : { << <<"d", "e">> >> },
     skip_keywords : { << <<"l", "o">> >>, << <<"L", "o">> >> }]

\* A mutant of BfsRateLimited: the limit is reached one page late.
BfsRateLimitedLate(visitedCount) ==
    IF bfsConfig.max_nodes_per_run <= 0 THEN FALSE
    ELSE visitedCount > bfsConfig.max_nodes_per_run

\* BFSCrawler._rate_limited.
BfsRateLimited(visitedCount) ==
    IF bfsConfig.max_nodes_per_run <= 0 THEN FALSE
    ELSE visitedCount >= bfsConfig.max_nodes_per_run

\* BFSCrawler._should_skip.
ShouldSkip(page) ==
    IF page.url = <<>> THEN FALSE
    ELSE \E i \in 1..Len(bfsConfig.skip_keywords) :
             Contains(Lower(page.url), bfsConfig.skip_keywords[i])

\* parent.page_id if parent else None, and parent.url if parent else None.
SourcePageId(parent) == parent.page_id

SourceUrl(parent) == parent.url

CrawlRecord(page, depth, parent) ==
    [key |-> Lower(page.url), page |-> page, depth |-> depth,
     source_page_id |-> SourcePageId(parent)]

SkipRecord(page, reason, parent) ==
    [url |-> page.url, reason |-> reason, source_page_id |-> SourcePageId(parent),
     source_url |-> SourceUrl(parent)]

\* BFSCrawler._guardrail_event.
BfsGuardrailEvent(type, page, depth, parent, keyword) ==
    [type |-> type, url |-> page.url, depth |-> depth,
     source_page_id |-> SourcePageId(parent), keyword |-> keyword]

\* A visited dictionary keyed by the URL as it is written.
VisitedKeysAsWritten == {bfsVisited[i].page.url : i \in 1..Len(bfsVisited)}

\* The keys of the visited dictionary.
VisitedKeys == {bfsVisited[i].key : i \in 1..Len(bfsVisited)}

\* No earlier crawl.
NoCrawl == [ran |-> FALSE, page_map |-> <<>>, skipped |-> <<>>]

\* A mutant of Children: the links come in another order in a second crawl.
ChildrenUnordered(page) ==
    LET links == IF page.page_id \in DOMAIN bfsAdjacency THEN bfsAdjacency[page.page_id] ELSE <<>>
    IN  IF bfsPrevious.ran THEN [i \in 1..Len(links) |-> links[Len(links) + 1 - i]] ELSE links

\* adjacency.get(page.page_id or page.url, []).
Children(page) ==
    IF page.page_id \in DOMAIN bfsAdjacency THEN bfsAdjacency[page.page_id] ELSE <<>>

\* crawl has not started.
CrawlNotStarted ==
    /\ bfsPc = "start"
    /\ bfsQueue = <<>>
    /\ bfsVisited = <<>>
    /\ bfsSkipped = <<>>
    /\ bfsEvents = <<>>
    /\ bfsFiles = {}

CrawlFrame ==
    /\ UNCHANGED <<bfsConfig, bfsSeeds, bfsAdjacency, bfsPrevious>>
    /\ UNCHANGED notBfsVars
    /\ UNCHANGED <<cfgVars, regVars, lsnVars, wfVars, poolVars, thr, idxVars, apiVars>>

\* crawl, lines 106-113: the queue holds the seeds at depth 0.
CrawlStart ==
    /\ bfsPc = "start"
    /\ bfsQueue' = [i \in 1..Len(bfsSeeds) |->
                       [page |-> bfsSeeds[i], depth |-> 0, parent |-> NoParent]]
    /\ bfsPc' = "loop"
    /\ UNCHANGED <<bfsVisited, bfsSkipped, bfsEvents, bfsFiles>>
    /\ CrawlFrame

\* crawl, lines 115-187: one iteration of the loop.
CrawlLoop ==
    /\ bfsPc = "loop"
    /\ bfsQueue # <<>>
    /\ LET page == Head(bfsQueue).page
           depth == Head(bfsQueue).depth
           parent == Head(bfsQueue).parent
           keyword == MatchKeyword(page, bfsConfig.destructive_keywords)
       IN  IF Lower(page.url) \in VisitedKeys
           THEN /\ bfsQueue' = Tail(bfsQueue)
                /\ UNCHANGED <<bfsVisited, bfsSkipped, bfsEvents, bfsPc>>
           ELSE IF BfsRateLimited(Len(bfsVisited))
           THEN /\ bfsQueue' = Tail(bfsQueue)
                /\ bfsEvents' = Append(bfsEvents,
                                       BfsGuardrailEvent("rate_limit", page, depth, parent, <<>>))
                /\ bfsSkipped' = Append(bfsSkipped, SkipRecord(page, "rate_limited", parent))
                /\ bfsPc' = "after"
                /\ UNCHANGED bfsVisited
           ELSE IF keyword # <<>>
           THEN /\ bfsQueue' = Tail(bfsQueue)
                /\ bfsEvents' = Append(bfsEvents,
                                       BfsGuardrailEvent("blocklist", page, depth, parent, keyword))
                /\ bfsSkipped' = Append(bfsSkipped,
                                        SkipRecord(page, "destructive_blocklist", parent))
                /\ UNCHANGED <<bfsVisited, bfsPc>>
           ELSE IF ShouldSkip(page)
           THEN /\ bfsQueue' = Tail(bfsQueue)
                /\ bfsSkipped' = Append(bfsSkipped, SkipRecord(page, "skip_keyword_match", parent))
                /\ UNCHANGED <<bfsVisited, bfsEvents, bfsPc>>
           ELSE /\ bfsVisited' = Append(bfsVisited, CrawlRecord(page, depth, parent))
                /\ bfsQueue' =
                      IF depth >= bfsConfig.max_depth THEN Tail(bfsQueue)
                      ELSE Tail(bfsQueue)
                               \o [i \in 1..Len(Children(page)) |->
                                      [page |-> Children(page)[i], depth |-> depth + 1,
                                       parent |-> page]]
                /\ UNCHANGED <<bfsSkipped, bfsEvents, bfsPc>>
    /\ UNCHANGED bfsFiles
    /\ CrawlFrame

\* The queue is empty: the loop is over.
CrawlLoopEnd ==
    /\ bfsPc = "loop"
    /\ bfsQueue = <<>>
    /\ bfsPc' = "after"
    /\ UNCHANGED <<bfsQueue, bfsVisited, bfsSkipped, bfsEvents, bfsFiles>>
    /\ CrawlFrame

\* crawl, lines 189-196, and _persist.
CrawlFinish ==
    /\ bfsPc = "after"
    /\ bfsFiles' = {"page_map.jsonl", "skipped_links.json", "coverage_merge.json"}
                      \cup (IF bfsEvents # <<>> THEN {"guardrails.jsonl"} ELSE {})
    /\ bfsPc' = "done"
    /\ UNCHANGED <<bfsQueue, bfsVisited, bfsSkipped, bfsEvents>>
    /\ CrawlFrame

\* CrawlRecord.to_artifact: the line of page_map.jsonl of a visited record.
ToArtifact(record) ==
    [page_id |-> record.page.page_id, url |-> record.page.url, title |-> record.page.title,
     depth |-> record.depth, source_page_id |-> record.source_page_id]

\* _persist: page_map.jsonl, one line per visited record in the order of
\* list(visited.values()).
PageMap == [i \in 1..Len(bfsVisited) |-> ToArtifact(bfsVisited[i])]

\* crawl is called again with the same seeds, adjacency and configuration:
\* its local variables start afresh (lines 106-113 of the second call, up to
\* the queue), the files of the first crawl are kept for comparison.
CrawlAgain ==
    /\ bfsPc = "done"
    /\ ~bfsPrevious.ran
    /\ bfsPrevious' = [ran |-> TRUE, page_map |-> PageMap, skipped |-> bfsSkipped]
    /\ bfsPc' = "start"
    /\ bfsQueue' = <<>>
    /\ bfsVisited' = <<>>
    /\ bfsSkipped' = <<>>
    /\ bfsEvents' = <<>>
    /\ UNCHANGED <<bfsConfig, bfsSeeds, bfsAdjacency, bfsFiles>>
    /\ UNCHANGED notBfsVars
    /\ UNCHANGED <<cfgVars, regVars, lsnVars, wfVars, poolVars, thr, idxVars, apiVars>>

\* ------------------------------------------------------------------ secrets

\* The tokens of the registries.
SecTokens == {"tokA", "tokB"}

\* No entry for a token.
NoSecEntry == [organization_slug |-> "", actor_role |-> ""]

EmptyRegistry == [t \in SecTokens |-> NoSecEntry]

\* A registry with one entry.
OneEntry(token, entry) == [t \in SecTokens |-> IF t = token THEN entry ELSE NoSecEntry]

\* The static registries (registry_json), the contents of the registry file
\* (the last one is not a JSON object) and of the single-token file.
BaseRegistries ==
    {EmptyRegistry, OneEntry("tokA", [organization_slug |-> "static", actor_role |-> "admin"])}

RegistryFileContents ==
    { [valid |-> TRUE, entries |-> OneEntry("tokA", [organization_slug |-> "acme",
                                                      actor_role |-> "qa_viewer"])],
      [valid |-> TRUE, entries |-> OneEntry("tokB", [organization_slug |-> "beta",
                                                      actor_role |-> "qa_viewer"])],
      [valid |-> FALSE, entries |-> EmptyRegistry] }

TokenFileContents == {"", "tokA", "tokB"}

\* The contents of the signing key file, line by line, and the keys of the
\* environment.
SigningKeyFileContents == {<<>>, <<"k1">>, <<"k2", "k1">>, <<"k2", "", "k2">>}

EnvPrimaryKeys == {"", "kenv"}

EnvPreviousKeys == {<<>>, <<"kprev">>, <<"k1", "kprev">>}

\* A file that does not exist.
AbsentRegistryFile == [exists |-> FALSE, mtime |-> 0, content |-> [valid |-> FALSE,
                                                                    entries |-> EmptyRegistry]]

AbsentTokenFile == [exists |-> FALSE, mtime |-> 0, content |-> ""]

AbsentSigningKeyFile == [exists |-> FALSE, mtime |-> 0, content |-> <<>>]

\* No call has returned.
NoSecResult == [call |-> "none", registry |-> EmptyRegistry, primary |-> "", all_keys |-> <<>>]

\* dict.update.
RegistryUpdate(registry, other) ==
    [t \in SecTokens |-> IF other[t] # NoSecEntry THEN other[t] ELSE registry[t]]

\* _load_registry_override.
LoadRegistryOverride == IF registryFile.content.valid THEN registryFile.content.entries
                        ELSE EmptyRegistry

\* _load_token_file_entry, with the default token_file_defaults.
LoadTokenFileEntry ==
    IF tokenFile.content = "" THEN EmptyRegistry
    ELSE OneEntry(tokenFile.content, [organization_slug |-> "default", actor_role |-> "qa_runner"])

\* _load_signing_key_file: the non-blank lines, duplicates dropped.
RECURSIVE DropDuplicates(_, _)
DropDuplicates(keys, seen) ==
    IF keys = <<>> THEN seen
    ELSE IF Head(keys) = "" \/ Head(keys) \in {seen[i] : i \in 1..Len(seen)}
         THEN DropDuplicates(Tail(keys), seen)
         ELSE DropDuplicates(Tail(keys), Append(seen, Head(keys)))

LoadSigningKeyFile == DropDuplicates(signingKeyFile.content, <<>>)

\* A refresh that keeps what it loaded when the file is gone.
RefreshedSourceKeepsLost(file, cachedValue, cachedMtime, loaded, empty) ==
    IF ~file.exists THEN [value |-> cachedValue, mtime |-> 0]
    ELSE IF cachedMtime # file.mtime THEN [value |-> loaded, mtime |-> file.mtime]
    ELSE [value |-> cachedValue, mtime |-> cachedMtime]

\* _refresh_token_sources_locked: the cache after one file was looked at; 0
\* stands for the mtime None.
RefreshedSource(file, cachedValue, cachedMtime, loaded, empty) ==
    IF ~file.exists THEN [value |-> empty, mtime |-> 0]
    ELSE IF cachedMtime # file.mtime THEN [value |-> loaded, mtime |-> file.mtime]
    ELSE [value |-> cachedValue, mtime |-> cachedMtime]

RefreshTokenSources(cache) ==
    LET registry == RefreshedSource(registryFile, cache.registry_override,
                                    cache.registry_file_mtime, LoadRegistryOverride,
                                    EmptyRegistry)
        token == RefreshedSource(tokenFile, cache.token_file_entry, cache.token_file_mtime,
                                 LoadTokenFileEntry, EmptyRegistry)
    IN  [cache EXCEPT !.registry_override = registry.value,
                      !.registry_file_mtime = registry.mtime,
                      !.token_file_entry = token.value,
                      !.token_file_mtime = token.mtime]

\* _refresh_signing_keys_locked.
RefreshSigningKeys(cache) ==
    LET keys == RefreshedSource(signingKeyFile, cache.signing_key_file_keys,
                                cache.signing_key_file_mtime, LoadSigningKeyFile, <<>>)
    IN  [cache EXCEPT !.signing_key_file_keys = keys.value,
                      !.signing_key_file_mtime = keys.mtime]

\* _compose_registry_locked.
ComposeRegistry(cache) ==
    RegistryUpdate(RegistryUpdate(secEnv.base_registry, cache.token_file_entry),
                   cache.registry_override)

\* _compose_signing_keys_locked: the keys, the first of them the primary.
RECURSIVE AppendMissing(_, _)
AppendMissing(keys, previous) ==
    IF previous = <<>> THEN keys
    ELSE IF Head(previous) # "" /\ Head(previous) \notin {keys[i] : i \in 1..Len(keys)}
         THEN AppendMissing(Append(keys, Head(previous)), Tail(previous))
         ELSE AppendMissing(keys, Tail(previous))

ComposeSigningKeys(cache) ==
    AppendMissing(IF cache.signing_key_file_keys # <<>> THEN cache.signing_key_file_keys
                  ELSE IF secEnv.primary_signing_key # "" THEN <<secEnv.primary_signing_key>>
                  ELSE <<>>,
                  secEnv.previous_signing_keys)

\* The manager has just been constructed: no file exists, nothing is loaded.
SecretsNotLoaded ==
    /\ registryFile = AbsentRegistryFile
    /\ tokenFile = AbsentTokenFile
    /\ signingKeyFile = AbsentSigningKeyFile
    /\ secCache = [registry_override |-> EmptyRegistry, registry_file_mtime |-> 0,
                   token_file_entry |-> EmptyRegistry, token_file_mtime |-> 0,
                   signing_key_file_keys |-> <<>>, signing_key_file_mtime |-> 0]
    /\ secWrites = 0
    /\ secResult = NoSecResult

SecretsFrame ==
    /\ UNCHANGED secEnv
    /\ UNCHANGED notSecVars
    /\ UNCHANGED <<cfgVars, regVars, lsnVars, wfVars, poolVars, thr, idxVars, apiVars>>

\* An operator writes one of the files; the write gives it a new mtime.
WriteRegistryFile(content) ==
    /\ secResult = NoSecResult
    /\ secWrites < MaxFileWrites
    /\ secWrites' = secWrites + 1
    /\ registryFile' = [exists |-> TRUE, mtime |-> secWrites + 1, content |-> content]
    /\ UNCHANGED <<tokenFile, signingKeyFile, secCache, secResult>>
    /\ SecretsFrame

WriteTokenFile(content) ==
    /\ secResult = NoSecResult
    /\ secWrites < MaxFileWrites
    /\ secWrites' = secWrites + 1
    /\ tokenFile' = [exists |-> TRUE, mtime |-> secWrites + 1, content |-> content]
    /\ UNCHANGED <<registryFile, signingKeyFile, secCache, secResult>>
    /\ SecretsFrame

WriteSigningKeyFile(content) ==
    /\ secResult = NoSecResult
    /\ secWrites < MaxFileWrites
    /\ secWrites' = secWrites + 1
    /\ signingKeyFile' = [exists |-> TRUE, mtime |-> secWrites + 1, content |-> content]
    /\ UNCHANGED <<registryFile, tokenFile, secCache, secResult>>
    /\ SecretsFrame

\* An operator removes one of the files.
DeleteSecretsFile(name) ==
    /\ secResult = NoSecResult
    /\ \/ name = "registry" /\ registryFile.exists /\ registryFile' = AbsentRegistryFile
          /\ UNCHANGED <<tokenFile, signingKeyFile>>
       \/ name = "token" /\ tokenFile.exists /\ tokenFile' = AbsentTokenFile
          /\ UNCHANGED <<registryFile, signingKeyFile>>
       \/ name = "keys" /\ signingKeyFile.exists /\ signingKeyFile' = AbsentSigningKeyFile
          /\ UNCHANGED <<registryFile, tokenFile>>
    /\ UNCHANGED <<secCache, secWrites, secResult>>
    /\ SecretsFrame

\* SecretsManager.get_token_registry.
GetTokenRegistry ==
    /\ secResult = NoSecResult
    /\ secCache' = RefreshTokenSources(secCache)
    /\ secResult' = [NoSecResult EXCEPT !.call = "get_token_registry",
                                        !.registry = ComposeRegistry(secCache')]
    /\ UNCHANGED <<registryFile, tokenFile, signingKeyFile, secWrites>>
    /\ SecretsFrame

\* SecretsManager.get_signing_keys.
GetSigningKeys ==
    /\ secResult = NoSecResult
    /\ secCache' = RefreshSigningKeys(secCache)
    /\ LET keys == ComposeSigningKeys(secCache')
       IN  secResult' = [NoSecResult EXCEPT !.call = "get_signing_keys",
                                            !.primary = IF keys = <<>> THEN "" ELSE keys[1],
                                            !.all_keys = keys]
    /\ UNCHANGED <<registryFile, tokenFile, signingKeyFile, secWrites>>
    /\ SecretsFrame

\* The caller has used the result.
SecretsReturn ==
    /\ secResult # NoSecResult
    /\ secResult' = NoSecResult
    /\ UNCHANGED <<registryFile, tokenFile, signingKeyFile, secCache, secWrites>>
    /\ SecretsFrame

\* ------------------------------------------------------------------ payload validation

\* The target_url values of a payload, as urlparse splits them: "" is a
\* missing target_url, "not-a-url" has neither scheme nor host, "https:///x"
\* has a scheme and no host.
TargetUrls ==
    {[text |-> "", scheme |-> "", netloc |-> ""],
     [text |-> "not-a-url", scheme |-> "", netloc |-> ""],
     [text |-> "https:///x", scheme |-> "https", netloc |-> ""],
     [text |-> "https://example.test", scheme |-> "https", netloc |-> "example.test"]}

\* The credentials values of a payload: absent, a string, or an object with
\* the keys username, secret_ref and one more ("" is a missing or empty value).
CredentialInputs ==
    {[kind |-> "absent", username |-> "", secret_ref |-> "", other |-> ""],
     [kind |-> "text", username |-> "", secret_ref |-> "", other |-> ""]}
    \cup [kind : {"object"}, username : {"", "qa"}, secret_ref : {"", "vault"}, other : {"", "x"}]

\* The budgets values of a payload: absent, a string, or an object; given
\* tells whether the object has the key.
BudgetInputs ==
    {[kind |-> "absent", timeGiven |-> FALSE, time |-> 0, pageGiven |-> FALSE, page |-> 0],
     [kind |-> "text", timeGiven |-> FALSE, time |-> 0, pageGiven |-> FALSE, page |-> 0],
     [kind |-> "object", timeGiven |-> TRUE, time |-> 0, pageGiven |-> FALSE, page |-> 0],
     [kind |-> "object", timeGiven |-> TRUE, time |-> 5, pageGiven |-> TRUE, page |-> 0],
     [kind |-> "object", timeGiven |-> TRUE, time |-> 5, pageGiven |-> TRUE, page |-> 7]}

\* The raw payloads create_run is given.
RawPayloads ==
    [target_url : TargetUrls,
     credentials : CredentialInputs,
     budgets : BudgetInputs,
     tags : {"list", "text"},
     organization : {"", "Acme_QA", "!!!"},
     organization_slug : {"", "acme", "!!!"},
     actor_role : {"", " ", "qa_viewer"}]

\* models._is_valid_url.
IsValidUrl(value) == value.scheme # "" /\ value.netloc # ""

\* models._coerce_int on a key of the budgets object.
CoerceInt(given, value, default) == IF given THEN value ELSE default

\* A mutant of IsEmpty: a specification without secret_ref is empty.
IsEmptyWithoutSecret(username, secret_ref) == secret_ref = ""

\* CredentialSpec.is_empty.
IsEmpty(username, secret_ref) == ~(username # "" \/ secret_ref # "")

\* from_dict, lines 59-64: the object the credentials are read from, as
\* whether it is a non-empty dict.
CredRawGiven(c) ==
    c.kind = "object" /\ (c.username # "" \/ c.secret_ref # "" \/ c.other # "")

\* models._normalize_slug raises ValueError: nothing is left of the value once
\* the characters outside [a-z0-9-] are replaced and the hyphens trimmed.
NormalizeSlugRaises(value) == value = "!!!"

\* from_dict, line 92: the organization.
FromDictOrganization(raw) == IF raw.organization = "" THEN "default" ELSE raw.organization

\* from_dict, line 101: _normalize_slug(organization) outside any try.
FromDictRaisesValueError(raw) ==
    /\ raw.organization_slug = ""
    /\ FromDictOrganization(raw) # "default"
    /\ NormalizeSlugRaises(FromDictOrganization(raw))

\* from_dict: the fields of the errors map.
FromDictErrors(raw) ==
    LET c == raw.credentials
        b == raw.budgets
        timeGiven == b.kind = "object" /\ b.timeGiven
        pageGiven == b.kind = "object" /\ b.pageGiven
    IN  (IF raw.target_url.text = "" \/ ~IsValidUrl(raw.target_url) THEN {"target_url"} ELSE {})
        \cup (IF c.kind = "text" THEN {"credentials"} ELSE {})
        \cup (IF CredRawGiven(c) /\ IsEmpty(c.username, c.secret_ref)
              THEN {"credentials.secret_ref"} ELSE {})
        \cup (IF b.kind = "text" THEN {"budgets"} ELSE {})
        \cup (IF CoerceInt(timeGiven, b.time, 30) <= 0 THEN {"budgets.time_budget_minutes"} ELSE {})
        \cup (IF CoerceInt(pageGiven, b.page, 200) <= 0 THEN {"budgets.page_budget"} ELSE {})
        \cup (IF raw.tags # "list" THEN {"tags"} ELSE {})
        \cup (IF raw.organization_slug # "" /\ NormalizeSlugRaises(raw.organization_slug)
              THEN {"organization_slug"} ELSE {})
        \cup (IF raw.actor_role = " " THEN {"actor_role"} ELSE {})

\* CreateRunPayload.from_dict: what it raises ("none": it returns), the errors
\* a ValidationError carries, and the credentials and slug of the payload made.
FromDict(raw) ==
    LET c == raw.credentials
        given == CredRawGiven(c)
        slug == IF raw.organization_slug # "" THEN NormalizeSlug(raw.organization_slug)
                ELSE IF FromDictOrganization(raw) # "default"
                THEN NormalizeSlug(FromDictOrganization(raw))
                ELSE "default"
    IN  IF FromDictRaisesValueError(raw)
        THEN [raises |-> "ValueError", errors |-> {}, empty |-> TRUE, slug |-> ""]
        ELSE IF FromDictErrors(raw) # {}
        THEN [raises |-> "ValidationError", errors |-> FromDictErrors(raw), empty |-> TRUE,
              slug |-> ""]
        ELSE [raises |-> "none", errors |-> {},
              empty |-> IsEmpty(IF given THEN c.username ELSE "", IF given THEN c.secret_ref ELSE ""),
              slug |-> slug]

\* A payload every field of which is as the simplest request has it.
PlainPayload ==
    [target_url |-> [text |-> "https://example.test", scheme |-> "https", netloc |-> "example.test"],
     credentials |-> [kind |-> "absent", username |-> "", secret_ref |-> "", other |-> ""],
     budgets |-> [kind |-> "absent", timeGiven |-> FALSE, time |-> 0, pageGiven |-> FALSE, page |-> 0],
     tags |-> "list", organization |-> "", organization_slug |-> "", actor_role |-> ""]

\* No create_run call is being answered.
NoIntake == [raw |-> PlainPayload, raises |-> "idle", errors |-> {}, run |-> "none"]

\* RunService.create_run on a raw payload: from_dict raises, or the run is
\* created (one run is created this way).
IntakeCreateRun(raw) ==
    LET parsed == FromDict(raw)
    IN  /\ intake = NoIntake
        /\ IF parsed.raises # "none"
           THEN /\ intake' = [raw |-> raw, raises |-> parsed.raises, errors |-> parsed.errors,
                              run |-> "none"]
                /\ UNCHANGED <<cfgVars, regVars, lsnVars, wfVars, poolVars, thr, idxVars>>
           ELSE /\ ~created[MainRun]
                /\ CreateRunAs(MainRun, parsed.empty, TRUE, parsed.slug)
                /\ intake' = [raw |-> raw, raises |-> "none", errors |-> {}, run |-> MainRun]
        /\ UNCHANGED <<apiVars, notValVars>>

\* The call has returned or raised.
IntakeReturn ==
    /\ intake # NoIntake
    /\ intake' = NoIntake
    /\ UNCHANGED <<cfgVars, regVars, lsnVars, wfVars, poolVars, thr, idxVars, apiVars, notValVars>>

\* ------------------------------------------------------------------ index rebuild

\* No rebuild_index call yet, or another operation since.
NoRebuild == [kind |-> "none", times |-> 0]

\* The organization slugs of the manifests of legacy runs; "" stands for a
\* manifest without the field.
LegacySlugs == {"", "acme", "zeta"}

\* The position of a file name among the names of the storage root: run ids
\* (RUN-..., upper case) sort before the organization slugs used here.
NameRank(name) ==
    CASE name = "r1" -> 1 [] name = "r2" -> 2 [] name = "acme" -> 3 [] name = "beta" -> 4
      [] name = "default" -> 5 [] name = "zeta" -> 6 [] OTHER -> 7

\* The sort key of a run's manifest path: <root>/<run_id>/run_manifest.json
\* for a legacy run, <root>/<dir>/<run_id>/run_manifest.json otherwise.
ManifestSortKey(r) ==
    IF runLocation[r] = "root" THEN 10 * NameRank(r)
    ELSE 10 * NameRank(runLocation[r]) + NameRank(r)

\* sorted(storage_root.glob("**/run_manifest.json")), as the runs found.
SortedManifests ==
    LET found == {r \in Runs : runLocation[r] # "none"}
    IN  CHOOSE order \in [1..Cardinality(found) -> found] :
            /\ \A r \in found : \E i \in 1..Cardinality(found) : order[i] = r
            /\ \A i, j \in 1..Cardinality(found) :
                   i < j => ManifestSortKey(order[i]) < ManifestSortKey(order[j])

\* rebuild_index, line 243: the organization slug read from a manifest.
RebuildSlug(r) == IF manifestSlug[r] = "" THEN "default" ELSE manifestSlug[r]

\* A mutant of MovedLocation: a run in its organization's directory is moved
\* back to the storage root.
MovedLocationBack(location, slug) == IF location # slug THEN slug ELSE "root"

\* rebuild_index, lines 246-253: where a run's directory is after the
\* move_legacy step (a run has one directory, so the expected directory
\* exists only if the run is in it).
MovedLocation(location, slug) == IF location # slug THEN slug ELSE location

\* resolve_run_path: the directory the run is looked for in.
ResolveRunPath(r) ==
    IF index[r] # NoEntry THEN index[r]
    ELSE IF runLocation[r] = "none" THEN "root"
    ELSE runLocation[r]

\* get_run returns the manifest.
Readable(r) == runLocation[r] # "none" /\ ResolveRunPath(r) = runLocation[r]

DiskFrame ==
    /\ UNCHANGED notDskVars
    /\ UNCHANGED apiVars

\* RunService.rebuild_index.
RebuildIndex(moveLegacy) ==
    LET found == {r \in Runs : runLocation[r] # "none"}
        kind == IF moveLegacy THEN "move" ELSE "keep"
    IN  /\ index' = [r \in Runs |-> IF r \in found THEN RebuildSlug(r) ELSE NoEntry]
        /\ indexOrder' = SortedManifests
        /\ runLocation' =
              [r \in Runs |->
                  IF r \in found /\ moveLegacy
                  THEN MovedLocation(runLocation[r], RebuildSlug(r))
                  ELSE runLocation[r]]
        /\ rbLast' = [kind |-> kind,
                      times |-> IF rbLast.kind = kind THEN Min(rbLast.times + 1, 2) ELSE 1]
        /\ UNCHANGED <<manifestSlug, cpc, cidx>>
        /\ UNCHANGED <<cfgVars, regVars, lsnVars, wfVars, poolVars, thr>>
        /\ DiskFrame

\* create_run, with the directory it makes and the key _update_index adds.
DiskCreateRun(r, slug) ==
    /\ r = NextRunId
    /\ CreateRunAs(r, TRUE, TRUE, slug)
    /\ runLocation' = [runLocation EXCEPT ![r] = slug]
    /\ indexOrder' = IF \E i \in 1..Len(indexOrder) : indexOrder[i] = r THEN indexOrder
                     ELSE Append(indexOrder, r)
    /\ rbLast' = NoRebuild
    /\ DiskFrame

\* ------------------------------------------------------------------ executor pool

\* What the collaborators of a workflow run by the pool do: they return or
\* raise an error that is not retryable (retries are explored with one run).
PoolResults == {"success", "success_false", "error"}

\* One step of the workflow of run r on a worker of the pool.
PoolWorkflowStep(r) ==
    \/ AuthSkip(r)
    \/ AuthBegin(r)
    \/ RecordAttempt(r)
    \/ \E result \in PoolResults : InvokeReturns(r, result)
    \/ \E result \in PoolResults : InvokeRaises(r, result)
    \/ ExplorationBegin(r)
    \/ CrawlBegin(r)
    \/ Complete(r)
    \/ Fail(r)

\* WorkflowExecutor.submit, its first statement: the stop flag is read; a set
\* flag raises RuntimeError.  POST /runs calls submit once for the run it created.
SubmitCheck(r) ==
    /\ created[r]
    /\ spc[r] = "none"
    /\ spc' = [spc EXCEPT ![r] = IF stopEvent THEN "rejected" ELSE "put"]
    /\ UNCHANGED <<queue, unfinishedTasks, stopEvent, wpc, wrun, sdpc>>
    /\ UNCHANGED nonPoolVars

\* WorkflowExecutor.submit, its second statement: queue.put(run_id).
SubmitPut(r) ==
    /\ spc[r] = "put"
    /\ queue' = Append(queue, r)
    /\ unfinishedTasks' = unfinishedTasks + 1
    /\ spc' = [spc EXCEPT ![r] = "done"]
    /\ UNCHANGED <<stopEvent, wpc, wrun, sdpc>>
    /\ UNCHANGED nonPoolVars

\* WorkflowExecutor._worker: the loop condition reads the stop flag.
WorkerCheck(w) ==
    /\ wpc[w] = "check"
    /\ wpc' = [wpc EXCEPT ![w] = IF stopEvent THEN "exited" ELSE "get"]
    /\ UNCHANGED <<queue, unfinishedTasks, stopEvent, wrun, spc, sdpc>>
    /\ UNCHANGED nonPoolVars

\* A mutant of QueueGet: the item put last is taken.
QueueGetLast(q) == [item |-> q[Len(q)], rest |-> SubSeq(q, 1, Len(q) - 1)]

\* queue.Queue.get on a queue that is not empty: the item put first is taken.
QueueGet(q) == [item |-> Head(q), rest |-> Tail(q)]

\* _worker: queue.get(timeout=0.5) returns the head of the queue.
WorkerGet(w) ==
    /\ wpc[w] = "get"
    /\ queue # <<>>
    /\ wrun' = [wrun EXCEPT ![w] = QueueGet(queue).item]
    /\ queue' = QueueGet(queue).rest
    /\ wpc' = [wpc EXCEPT ![w] = "exec"]
    /\ UNCHANGED <<unfinishedTasks, stopEvent, spc, sdpc>>
    /\ UNCHANGED nonPoolVars

\* _worker: queue.get(timeout=0.5) raises queue.Empty and the loop continues.
WorkerTimeout(w) ==
    /\ wpc[w] = "get"
    /\ queue = <<>>
    /\ wpc' = [wpc EXCEPT ![w] = "check"]
    /\ UNCHANGED <<queue, unfinishedTasks, stopEvent, wrun, spc, sdpc>>
    /\ UNCHANGED nonPoolVars

\* _worker: self.workflow.execute(run_id), called with no site map, up to the
\* try statement of execute.
WorkerExecuteStart(w, builderOk) ==
    /\ wpc[w] = "exec"
    /\ ExecuteStart(wrun[w], FALSE, builderOk)

\* _worker: self.workflow.execute(run_id) when the site map resolution raises.
WorkerExecuteSiteMapFails(w, builderOk) ==
    /\ wpc[w] = "exec"
    /\ ExecuteSiteMapFails(wrun[w], FALSE, builderOk)

\* A mutant of WorkerAfterExecute: an exception of execute ends the worker.
WorkerStopsOnRaise(outcome) == IF outcome = "raised" THEN "exited" ELSE "check"

\* _worker, lines 83-88: where the worker goes after execute returned or
\* raised; "except Exception" catches what execute raises.
WorkerAfterExecute(outcome) == "check"

\* _worker: execute returned or raised (the exception is logged and swallowed);
\* queue.task_done() and the loop continues.
WorkerDone(w) ==
    /\ wpc[w] = "exec"
    /\ pc[wrun[w]] \in {"returned", "raised"}
    /\ unfinishedTasks' = unfinishedTasks - 1
    /\ wpc' = [wpc EXCEPT ![w] = WorkerAfterExecute(pc[wrun[w]])]
    /\ UNCHANGED <<queue, stopEvent, wrun, spc, sdpc>>
    /\ UNCHANGED nonPoolVars

\* WorkflowExecutor.shutdown: the stop flag is set.
ShutdownSet ==
    /\ sdpc = "idle"
    /\ stopEvent' = TRUE
    /\ sdpc' = "drain"
    /\ UNCHANGED <<queue, unfinishedTasks, wpc, wrun, spc>>
    /\ UNCHANGED nonPoolVars

\* shutdown: the queue is not empty and get_nowait() discards its head.
ShutdownDrain ==
    /\ sdpc = "drain"
    /\ queue # <<>>
    /\ queue' = Tail(queue)
    /\ UNCHANGED <<unfinishedTasks, stopEvent, wpc, wrun, spc, sdpc>>
    /\ UNCHANGED nonPoolVars

\* shutdown: the queue is empty (or get_nowait() raised queue.Empty); the
\* workers are joined next.
ShutdownDrained ==
    /\ sdpc = "drain"
    /\ queue = <<>>
    /\ sdpc' = "join"
    /\ UNCHANGED <<queue, unfinishedTasks, stopEvent, wpc, wrun, spc>>
    /\ UNCHANGED nonPoolVars

\* shutdown: the joins end, because the workers exited or the deadline passed.
ShutdownJoined ==
    /\ sdpc = "join"
    /\ sdpc' = "done"
    /\ UNCHANGED <<queue, unfinishedTasks, stopEvent, wpc, wrun, spc>>
    /\ UNCHANGED nonPoolVars

\* ------------------------------------------------------------------ specifications

\* The state after construction but for the configuration and the manifests
\* the storage root holds.
InitCoreRest ==
    /\ credsEmpty = [r \in Runs |-> TRUE]
    /\ manifestHistory = [r \in Runs |-> <<>>]
    /\ manifestMeta = [r \in Runs |-> ""]
    /\ summaryStatus = [r \in Runs |-> ""]
    /\ summaryHistory = [r \in Runs |-> <<>>]
    /\ historyFile = [r \in Runs |-> <<>>]
    /\ eventsFile = [r \in Runs |-> <<>>]
    /\ checkpoints = [r \in Runs |-> <<>>]
    /\ clock = [r \in Runs |-> 0]
    /\ opUpdates = [r \in Runs |-> 0]
    /\ listeners = [r \in Runs |-> <<>>]
    /\ delivered = [l \in Listeners |-> <<>>]
    /\ pc = [r \in Runs |-> "idle"]
    /\ phase = [r \in Runs |-> ""]
    /\ activity = [r \in Runs |-> ""]
    /\ attempt = [r \in Runs |-> 0]
    /\ calls = [r \in Runs |-> <<>>]
    /\ emitted = [r \in Runs |-> <<>>]
    /\ queue = <<>>
    /\ unfinishedTasks = 0
    /\ stopEvent = FALSE
    /\ wpc = [w \in Workers |-> "check"]
    /\ wrun = [w \in Workers |-> "none"]
    /\ spc = [r \in Runs |-> "none"]
    /\ sdpc = "idle"
    /\ thr = [t \in Threads |->
                [pc |-> "idle", status |-> "", timestamp |-> 0, history |-> <<>>,
                 callbacks |-> <<>>, calls |-> 0]]

\* The state after construction, but for the configuration: no run exists.
InitCore ==
    /\ created = [r \in Runs |-> FALSE]
    /\ manifestStatus = [r \in Runs |-> ""]
    /\ InitCoreRest

\* No run is indexed and no create_run call has begun.
InitIndexState ==
    /\ index = [r \in Runs |-> NoEntry]
    /\ manifestSlug = [r \in Runs |-> ""]
    /\ cpc = [r \in Runs |-> "none"]
    /\ cidx = [r \in Runs |-> [q \in Runs |-> NoEntry]]

\* The server's token registry is empty: no endpoint requires a token.
InitApiState ==
    /\ authRequired = FALSE
    /\ resp = NoResponse
    /\ creator = [r \in Runs |-> "none"]

\* get_artifact_path has not been called.
InitPathState ==
    /\ pathArg = [absolute |-> FALSE, segments |-> <<>>]
    /\ pathResult = NotCalled

\* One signing key, no URL issued, no download requested.
InitUrlState ==
    /\ ring = <<"k1">>
    /\ now = 0
    /\ url = NoUrl
    /\ dl = NoDownload

\* explore has not been called: the default configuration and no pages.
InitExpState ==
    /\ expConfig = [coverage_threshold |-> [num |-> 1, den |-> 1], max_pages_per_run |-> 0,
                    destructive_keywords |-> <<>>]
    /\ expPages = <<>>
    /\ ExploreNotStarted

\* crawl has not been called: no seeds and no links.
InitBfsState ==
    /\ bfsConfig = [max_depth |-> MaxDepth, max_nodes_per_run |-> 0,
                    destructive_keywords |-> << <<"d", "e">> >>,
                    skip_keywords |-> << <<"l", "o">> >>]
    /\ bfsSeeds = <<>>
    /\ bfsAdjacency = [k \in LinkingPageIds |-> <<>>]
    /\ CrawlNotStarted
    /\ bfsPrevious = NoCrawl

\* A manager with no static registry and no signing key, and no file.
InitSecState ==
    /\ secEnv = [base_registry |-> EmptyRegistry, primary_signing_key |-> "",
                 previous_signing_keys |-> <<>>]
    /\ SecretsNotLoaded

\* No event stream has been requested.
InitSseState ==
    /\ ssePc = "idle"
    /\ sseHistory = <<>>
    /\ sseFrames = <<>>
    /\ sseStop = FALSE
    /\ clientOpen = TRUE

\* No create_run call with a raw payload is being answered.
InitValState == intake = NoIntake

\* The run directories are not tracked.
InitDskState ==
    /\ runLocation = [r \in Runs |-> "none"]
    /\ indexOrder = <<>>
    /\ rbLast = NoRebuild

\* None of the functions checked on their own has been called.
InitFnState == InitPathState /\ InitUrlState /\ InitExpState /\ InitBfsState /\ InitSecState /\ InitDskState /\ InitValState /\ InitSseState

\* The same, but for one of them.
InitNotPath == InitUrlState /\ InitExpState /\ InitBfsState /\ InitSecState /\ InitDskState /\ InitValState /\ InitSseState

InitNotUrl == InitPathState /\ InitExpState /\ InitBfsState /\ InitSecState /\ InitDskState /\ InitValState /\ InitSseState

InitNotExp == InitPathState /\ InitUrlState /\ InitBfsState /\ InitSecState /\ InitDskState /\ InitValState /\ InitSseState

InitNotBfs == InitPathState /\ InitUrlState /\ InitExpState /\ InitSecState /\ InitDskState /\ InitValState /\ InitSseState

InitNotSec == InitPathState /\ InitUrlState /\ InitExpState /\ InitBfsState /\ InitDskState /\ InitValState /\ InitSseState

InitNotDsk == InitPathState /\ InitUrlState /\ InitExpState /\ InitBfsState /\ InitSecState /\ InitValState /\ InitSseState

InitNotVal == InitPathState /\ InitUrlState /\ InitExpState /\ InitBfsState /\ InitSecState /\ InitDskState /\ InitSseState

InitNotSse == InitPathState /\ InitUrlState /\ InitExpState /\ InitBfsState /\ InitSecState /\ InitDskState /\ InitValState

InitState == InitCore /\ InitIndexState /\ InitApiState /\ InitFnState

\* One run, created and driven by one RunWorkflow.execute, under every
\* configuration of RunService and RunWorkflow.
Init ==
    /\ invokeAuthOnCreate \in BOOLEAN
    /\ rsOrchestrator \in BOOLEAN
    /\ wfOrchestrator \in BOOLEAN
    /\ builderSet \in BOOLEAN
    /\ maxAttempts \in 0..MaxPolicyAttempts
    /\ InitState

Next ==
    \/ \E empty \in BOOLEAN, authOk \in BOOLEAN : CreateRun(MainRun, empty, authOk)
    \/ \E given \in BOOLEAN, builderOk \in BOOLEAN : ExecuteStart(MainRun, given, builderOk)
    \/ \E given \in BOOLEAN, builderOk \in BOOLEAN : ExecuteSiteMapFails(MainRun, given, builderOk)
    \/ WorkflowStep(MainRun)

Spec == Init /\ [][Next]_vars

\* The run registry alone: runs are created and their status is updated by
\* explicit update_status calls, one call at a time.
InitRegistry ==
    /\ invokeAuthOnCreate \in BOOLEAN
    /\ rsOrchestrator \in BOOLEAN
    /\ wfOrchestrator = FALSE
    /\ builderSet = FALSE
    /\ maxAttempts = DefaultMaxAttempts
    /\ InitState

NextRegistry ==
    \/ \E r \in Runs, empty \in BOOLEAN, authOk \in BOOLEAN : CreateRun(r, empty, authOk)
    \/ \E r \in Runs, s \in OperatorStatuses : OperatorUpdateStatus(r, s)

SpecRegistry == InitRegistry /\ [][NextRegistry]_vars

\* The server built by serve(): POST /runs creates a run and submits it to the
\* pool, whose workers execute the workflow; shutdown may be called at any time.
\* serve() passes invoke_auth_on_create=False, one orchestrator to the registry
\* and the workflow, and a site map builder.
InitPool ==
    /\ invokeAuthOnCreate = FALSE
    /\ rsOrchestrator \in BOOLEAN
    /\ wfOrchestrator = rsOrchestrator
    /\ builderSet = TRUE
    /\ maxAttempts = DefaultMaxAttempts
    /\ InitState

NextPool ==
    \/ \E r \in Runs, empty \in BOOLEAN : CreateRun(r, empty, TRUE)
    \/ \E r \in Runs : SubmitCheck(r)
    \/ \E r \in Runs : SubmitPut(r)
    \/ \E w \in Workers : WorkerCheck(w)
    \/ \E w \in Workers : WorkerGet(w)
    \/ \E w \in Workers : WorkerTimeout(w)
    \/ \E w \in Workers, builderOk \in BOOLEAN : WorkerExecuteStart(w, builderOk)
    \/ \E w \in Workers, builderOk \in BOOLEAN : WorkerExecuteSiteMapFails(w, builderOk)
    \/ \E r \in Runs : PoolWorkflowStep(r)
    \/ \E w \in Workers : WorkerDone(w)
    \/ ShutdownSet
    \/ ShutdownDrain
    \/ ShutdownDrained
    \/ ShutdownJoined

SpecPool == InitPool /\ [][NextPool]_vars

\* The same server when shutdown is never called: the workers and the workflows
\* they run keep taking their steps.
WorkerStep(w) ==
    \/ WorkerCheck(w)
    \/ WorkerGet(w)
    \/ WorkerTimeout(w)
    \/ \E builderOk \in BOOLEAN : WorkerExecuteStart(w, builderOk)
    \/ \E builderOk \in BOOLEAN : WorkerExecuteSiteMapFails(w, builderOk)
    \/ WorkerDone(w)

PoolProgress ==
    \/ \E w \in Workers : WorkerStep(w)
    \/ \E r \in Runs : PoolWorkflowStep(r)

NextPoolLive ==
    \/ \E r \in Runs, empty \in BOOLEAN : CreateRun(r, empty, TRUE)
    \/ \E r \in Runs : SubmitCheck(r)
    \/ \E r \in Runs : SubmitPut(r)
    \/ PoolProgress

\* Every worker thread is scheduled again and again.
SpecPoolLive ==
    /\ InitPool
    /\ [][NextPoolLive]_vars
    /\ \A w \in Workers : WF_vars(WorkerStep(w))
    /\ \A r \in Runs : WF_vars(PoolWorkflowStep(r))

\* Concurrent create_run calls of a RunService, as the threads of the HTTP
\* server make them.
InitIndex ==
    /\ invokeAuthOnCreate \in BOOLEAN
    /\ rsOrchestrator \in BOOLEAN
    /\ wfOrchestrator = FALSE
    /\ builderSet = FALSE
    /\ maxAttempts = DefaultMaxAttempts
    /\ InitState

NextIndex ==
    \/ \E r \in Runs, empty \in BOOLEAN, slug \in Slugs : CreatePersist(r, empty, slug)
    \/ \E r \in Runs : CreateReadIndex(r)
    \/ \E r \in Runs : CreateWriteIndex(r)

SpecIndex == InitIndex /\ [][NextIndex]_vars

\* The HTTP server without executor and workflow, with a token registry or
\* without one, serving one request after the other.
InitApi ==
    /\ invokeAuthOnCreate = FALSE
    /\ rsOrchestrator = FALSE
    /\ wfOrchestrator = FALSE
    /\ builderSet = FALSE
    /\ maxAttempts = DefaultMaxAttempts
    /\ InitCore
    /\ InitIndexState
    /\ authRequired \in BOOLEAN
    /\ resp = NoResponse
    /\ creator = [r \in Runs |-> "none"]
    /\ InitFnState

\* The statuses sent to POST /runs/{id}/status.
ApiStatuses == {"Paused", "Completed"}

\* The tokens requests carry: without a registry no handler looks at the token.
RequestTokens == IF authRequired THEN Requesters ELSE {"none"}

NextApi ==
    \/ \E token \in RequestTokens, r \in Runs, bodyOk \in BOOLEAN, valid \in BOOLEAN,
          requested \in RequestedSlugs : ApiPostRuns(token, r, bodyOk, valid, requested)
    \/ \E token \in RequestTokens : ApiGetRuns(token)
    \/ \E token \in RequestTokens, r \in Runs, read \in RunReads : ApiGetRun(token, r, read)
    \/ \E token \in RequestTokens, r \in Runs, bodyOk \in BOOLEAN, status \in ApiStatuses :
          ApiPostStatus(token, r, bodyOk, status)
    \/ \E token \in RequestTokens, r \in Runs, bodyOk \in BOOLEAN : ApiPostCheckpoint(token, r, bodyOk)
    \/ ApiFinish

SpecApi == InitApi /\ [][NextApi]_vars

\* The system at rest, under the configuration of serve().
IdleSystem ==
    /\ invokeAuthOnCreate = FALSE
    /\ rsOrchestrator = FALSE
    /\ wfOrchestrator = FALSE
    /\ builderSet = FALSE
    /\ maxAttempts = DefaultMaxAttempts
    /\ InitCore
    /\ InitIndexState
    /\ InitApiState

\* The relative paths of at most n segments.
RECURSIVE PathsUpTo(_)
PathsUpTo(n) ==
    IF n = 0
    THEN {<<>>}
    ELSE LET shorter == PathsUpTo(n - 1)
         IN  shorter \cup {Append(q, seg) : q \in shorter, seg \in PathSegments}

\* get_artifact_path called with every relative path, absolute or not.
InitPath ==
    /\ IdleSystem
    /\ pathArg \in [absolute : BOOLEAN, segments : PathsUpTo(MaxPathLen)]
    /\ pathResult = NotCalled
    /\ InitNotPath

NextPath == GetArtifactPath

SpecPath == InitPath /\ [][NextPath]_vars

\* Signed downloads: runs are created, a download URL is issued, keys rotate,
\* time passes and downloads are requested.
InitUrl ==
    /\ IdleSystem
    /\ InitNotUrl
    /\ ring \in KeyRings
    /\ now = 0
    /\ url = NoUrl
    /\ dl = NoDownload

NextUrl ==
    \/ \E r \in Runs, slug \in {"acme", "beta"} : UrlCreateRun(r, slug)
    \/ \E r \in Runs, path \in UrlPaths : IssueUrl(r, path)
    \/ \E keys \in KeyRings : RotateKeys(keys)
    \/ Tick
    \/ \E u \in Variations(url), exists \in BOOLEAN : Download(u, exists)
    \/ DownloadFinish

SpecUrl == InitUrl /\ [][NextUrl]_vars

\* explore, called once with every configuration and every site map.
InitExplore ==
    /\ IdleSystem
    /\ InitNotExp
    /\ expConfig \in ExplorationConfigs
    /\ expPages \in PageListsUpTo(MaxPages)
    /\ ExploreNotStarted

NextExplore ==
    \/ ExploreStart
    \/ ExploreLoop
    \/ ExploreLoopEnd
    \/ ExploreFinish

SpecExplore == InitExplore /\ [][NextExplore]_vars

\* crawl, called once with every configuration, seed list and adjacency map.
InitCrawl ==
    /\ IdleSystem
    /\ InitNotBfs
    /\ bfsConfig \in CrawlConfigs
    /\ bfsSeeds \in SeedLists
    /\ bfsAdjacency \in [LinkingPageIds -> ChildLists]
    /\ CrawlNotStarted
    /\ bfsPrevious = NoCrawl

NextCrawl ==
    \/ CrawlStart
    \/ CrawlLoop
    \/ CrawlLoopEnd
    \/ CrawlFinish

SpecCrawl == InitCrawl /\ [][NextCrawl]_vars

\* crawl is a function of one thread: it goes on as long as it has a step
\* to take.
SpecCrawlLive == SpecCrawl /\ WF_vars(NextCrawl)

\* crawl, called twice with the same arguments.
NextCrawlTwice ==
    \/ CrawlStart
    \/ CrawlLoop
    \/ CrawlLoopEnd
    \/ CrawlFinish
    \/ CrawlAgain

SpecCrawlTwice == InitCrawl /\ [][NextCrawlTwice]_vars

\* A SecretsManager under every configuration, its files written and removed
\* between calls.
InitSecrets ==
    /\ IdleSystem
    /\ InitNotSec
    /\ secEnv \in [base_registry : BaseRegistries, primary_signing_key : EnvPrimaryKeys,
                    previous_signing_keys : EnvPreviousKeys]
    /\ SecretsNotLoaded

NextSecrets ==
    \/ \E content \in RegistryFileContents : WriteRegistryFile(content)
    \/ \E content \in TokenFileContents : WriteTokenFile(content)
    \/ \E content \in SigningKeyFileContents : WriteSigningKeyFile(content)
    \/ \E name \in {"registry", "token", "keys"} : DeleteSecretsFile(name)
    \/ GetTokenRegistry
    \/ GetSigningKeys
    \/ SecretsReturn

SpecSecrets == InitSecrets /\ [][NextSecrets]_vars

\* A RunService over a storage root that holds runs of an earlier layout,
\* <root>/<run_id>: runs are created and the index is rebuilt.
InitRebuild ==
    /\ invokeAuthOnCreate = FALSE
    /\ rsOrchestrator = FALSE
    /\ wfOrchestrator = FALSE
    /\ builderSet = FALSE
    /\ maxAttempts = DefaultMaxAttempts
    /\ InitCoreRest
    /\ InitApiState
    /\ InitNotDsk
    /\ \E legacy \in [Runs -> LegacySlugs \cup {"none"}] :
           /\ created = [r \in Runs |-> legacy[r] # "none"]
           /\ manifestStatus = [r \in Runs |-> IF legacy[r] # "none" THEN "Completed" ELSE ""]
           /\ manifestSlug = [r \in Runs |-> IF legacy[r] # "none" THEN legacy[r] ELSE ""]
           /\ runLocation = [r \in Runs |-> IF legacy[r] # "none" THEN "root" ELSE "none"]
           /\ cpc = [r \in Runs |-> IF legacy[r] # "none" THEN "done" ELSE "none"]
    /\ index = [r \in Runs |-> NoEntry]
    /\ cidx = [r \in Runs |-> [q \in Runs |-> NoEntry]]
    /\ indexOrder = <<>>
    /\ rbLast = NoRebuild

NextRebuild ==
    \/ \E r \in Runs, slug \in {"acme", "beta"} : DiskCreateRun(r, slug)
    \/ \E moveLegacy \in BOOLEAN : RebuildIndex(moveLegacy)

SpecRebuild == InitRebuild /\ [][NextRebuild]_vars

\* A step that is a rebuild_index call right after another one with the same
\* value of move_legacy.
SecondRebuild == rbLast.kind \in {"move", "keep"} /\ rbLast'.kind = rbLast.kind

\* C25 as stated: running rebuild_index twice in a row leaves run_index.json,
\* the order of its keys included, and the run directories exactly as they
\* were after the first run.
C25_RebuildLeavesFileAsItWas ==
    [][SecondRebuild =>
          /\ index' = index
          /\ indexOrder' = indexOrder
          /\ runLocation' = runLocation]_vars

\* C25: for either value of move_legacy, running rebuild_index twice in a row
\* leaves the entries of run_index.json (the JSON object, whatever the order
\* of its keys) and the run directories as they were after the first run.
C25_RebuildIsIdempotent ==
    [][SecondRebuild => index' = index /\ runLocation' = runLocation]_vars

\* rebuild_index(move_legacy=True) has run twice in a row over a storage root
\* where the first run moved a legacy run into its organization's directory.
C25_Witness ==
    /\ rbLast = [kind |-> "move", times |-> 2]
    /\ \E r \in Runs : runLocation[r] \in {"zeta", "default"} /\ index[r] = runLocation[r]

\* C26: after create_run and after rebuild_index, every index entry's
\* organization_slug names the directory that holds the run, so that every run
\* on disk is readable by get_run.
C26_IndexNamesRunDirectory ==
    \A r \in Runs :
        /\ index[r] # NoEntry => runLocation[r] = index[r]
        /\ runLocation[r] # "none" => Readable(r)

\* One client streams the events of a run while a workflow thread updates the
\* run's status, statement by statement.
InitSse ==
    /\ IdleSystem
    /\ InitFnState

UpdaterStep(t) ==
    \/ \E s \in ThreadStatuses : UsBegin(t, MainRun, s)
    \/ UsWriteHistory(t, MainRun)
    \/ UsWriteManifest(t, MainRun)
    \/ UsWriteSummary(t, MainRun)
    \/ UsAppendEvent(t, MainRun)
    \/ UsReadHistory(t, MainRun)
    \/ UsAppendHistory(t, MainRun)
    \/ UsSnapshot(t, MainRun)
    \/ UsNotifyStream(t)
    \/ UsReturn(t)

HandlerStep ==
    \/ StreamOpen(MainRun)
    \/ StreamReplay
    \/ StreamRegister(MainRun)
    \/ StreamLoopExit
    \/ StreamUnregister(MainRun)

NextSse ==
    \/ CreateRun(MainRun, TRUE, TRUE)
    \/ UpdaterStep("workflow")
    \/ HandlerStep
    \/ ClientClose

SpecSse == InitSse /\ [][NextSse]_vars

\* The handler's steps are taken: the loop wakes up every 30 seconds.
SpecSseLive == SpecSse /\ WF_vars(HandlerStep)

\* C31: a client subscribed to a run observes every status change: once the
\* stream is live and no update_status call is in progress, each entry of the
\* run's status history has been written to the stream, in the replay or as a
\* live frame.
C31_StreamShowsEveryStatus ==
    (ssePc = "live" /\ clientOpen /\ \A t \in Threads : thr[t].pc = "idle") =>
        \A i \in 1..Len(historyFile[MainRun]) :
            \E j \in 1..Len(sseFrames) : sseFrames[j] = Frame(historyFile[MainRun][i])

\* No update_status call in progress holds the stream's listener among the
\* callbacks it has still to call.
NoPendingCall == \A t \in Threads : Count(thr[t].callbacks, SseListener) = 0

\* C37 as stated: once the handler of a stream the client closed has finished,
\* its listener is not in the run's list and is never called again.
C37_ListenerNeverCalledAgain ==
    [][ssePc = "done" =>
          /\ Count(listeners[MainRun], SseListener) = 0
          /\ delivered'[SseListener] = delivered[SseListener]]_vars

\* C37: when the client has closed the connection the handler loop terminates
\* and its listener is unregistered; the run's list holds no callback of a
\* finished handler, and once the update_status calls that had copied the list
\* before have made their calls the listener is never called again.
C37_ClosedStreamIsUnregistered ==
    /\ [][ssePc = "done" =>
             /\ Count(listeners[MainRun], SseListener) = 0
             /\ Count(listeners'[MainRun], SseListener) = 0
             /\ NoPendingCall =>
                    /\ delivered'[SseListener] = delivered[SseListener]
                    /\ NoPendingCall']_vars
    /\ (ssePc = "live" /\ ~clientOpen) ~> (ssePc = "done")

\* A stream went live, the client closed it, the listener's write failed and the
\* handler has finished.
C37_Witness ==
    /\ ssePc = "done"
    /\ ~clientOpen
    /\ sseStop
    /\ Len(delivered[SseListener]) > 0
    /\ NoPendingCall

\* C32: each update_status call appends exactly one line to events.jsonl and at
\* most one entry to status_history.json (calls are told apart by their
\* timestamps), and every event passed to a listener is a line of events.jsonl.
C32_OneEventLinePerCall ==
    /\ \A t \in Threads :
           thr[t].calls > 0 =>
               /\ Count(eventsFile[MainRun], EventOf(t)) =
                      (IF thr[t].pc \in {"write_history", "manifest", "summary", "append_event"}
                       THEN 0 ELSE 1)
               /\ Count(historyFile[MainRun], Entry(thr[t].status, thr[t].timestamp)) <= 1
    /\ \A l \in Listeners :
           \A i \in 1..Len(delivered[l]) : Count(eventsFile[MainRun], delivered[l][i]) = 1

\* C33: once a run's status is Completed or Failed it never changes again and
\* no later update_status appends a further status to its history.
C33_TerminalStatusIsFinal ==
    [][\A r \in Runs :
          manifestStatus[r] \in {"Completed", "Failed"} =>
              /\ manifestStatus'[r] = manifestStatus[r]
              /\ historyFile'[r] = historyFile[r]
              /\ summaryHistory'[r] = summaryHistory[r]]_vars

\* C34: after every update_status the status_history of run_manifest.json,
\* the status_history of run_summary.json and status_history.json hold the
\* same sequence of statuses.
C34_HistoryCopiesAgree ==
    \A r \in Runs :
        opUpdates[r] > 0 =>
            /\ Statuses(manifestHistory[r]) = Statuses(historyFile[r])
            /\ Statuses(summaryHistory[r]) = Statuses(historyFile[r])

\* The workers that are executing a workflow.
ExecutingWorkers == {w \in Workers : wpc[w] = "exec"}

\* C35: at most W workflows execute at a time, each worker running at most one
\* and each executing run being run by one worker; a submitted run_id is
\* dequeued at most once, and run_ids are dequeued in submission order.
C35_WorkersRunOneWorkflowEach ==
    [][/\ Cardinality({r \in Runs : pc[r] \notin {"idle", "returned", "raised"}})
              <= Cardinality(Workers)
       /\ \A r \in Runs :
              /\ pc[r] \notin {"idle", "returned", "raised"} =>
                     Cardinality({w \in ExecutingWorkers : wrun[w] = r}) = 1
              /\ Count(queue, r) + Cardinality({w \in ExecutingWorkers : wrun[w] = r}) <= 1
       /\ \A w \in Workers :
              (wpc[w] = "get" /\ wpc'[w] = "exec") =>
                  /\ wrun'[w] = Head(queue)
                  /\ pc[wrun'[w]] = "idle"
                  /\ \A v \in Workers : v # w => wrun[v] # wrun'[w]]_vars

\* Both workers execute a workflow, the run submitted first on the worker that
\* dequeued first.
C35_Witness ==
    /\ ExecutingWorkers = Workers
    /\ wrun["w1"] # wrun["w2"]
    /\ \A w \in Workers : pc[wrun[w]] \notin {"idle", "returned", "raised"}

\* C36: a workflow that raises does not stop its worker: the worker goes back
\* to the top of its loop, and absent shutdown every queued run_id is dequeued
\* and executed to its end.
C36_FailingRunDoesNotStopWorker ==
    /\ [][\A w \in Workers :
              (wpc[w] = "exec" /\ wpc'[w] # "exec") => wpc'[w] = "check"]_vars
    /\ \A r \in Runs : (Count(queue, r) > 0) ~> (pc[r] \in {"returned", "raised"})

\* One worker has executed both runs: the first raised, and the run queued
\* behind it was executed afterwards.
C36_Witness ==
    /\ pc["r1"] = "raised"
    /\ pc["r2"] \in {"returned", "raised"}
    /\ wrun["w1"] = "r2"
    /\ wrun["w2"] = "none"
    /\ wpc["w1"] = "check"

\* The registry with callbacks registered and unregistered for its runs, the
\* way the event stream handler does.
InitListeners ==
    /\ IdleSystem
    /\ InitFnState

NextListeners ==
    \/ \E r \in Runs : CreateRun(r, TRUE, TRUE)
    \/ \E r \in Runs, l \in Listeners : RegisterFreshListener(r, l)
    \/ \E r \in Runs, l \in Listeners : UnregisterListener(r, l)
    \/ \E r \in Runs, s \in OperatorStatuses :
          ApiUpdates < MaxApiUpdates /\ OperatorUpdateStatus(r, s)

SpecListeners == InitListeners /\ [][NextListeners]_vars

InitIntake ==
    /\ IdleSystem
    /\ InitFnState

NextIntake ==
    \/ intake = NoIntake /\ \E raw \in RawPayloads : IntakeCreateRun(raw)
    \/ IntakeReturn
    \/ \E r \in Runs : SubmitCheck(r)
    \/ \E r \in Runs : SubmitPut(r)

SpecIntake == InitIntake /\ [][NextIntake]_vars

\* The payloads the intake rules declare invalid: target_url missing or
\* without scheme and host, credentials that are no object or have a non-empty
\* field and no secret_ref, budgets that are no object or not positive, tags
\* that are no list, an organization slug (given, or derived from the
\* organization) that cannot be normalized to kebab case, a blank actor_role.
InvalidPayload(raw) ==
    LET c == raw.credentials
        b == raw.budgets
    IN  \/ raw.target_url.scheme = "" \/ raw.target_url.netloc = ""
        \/ c.kind = "text"
        \/ c.kind = "object" /\ (c.username # "" \/ c.other # "") /\ c.secret_ref = ""
        \/ b.kind = "text"
        \/ b.kind = "object" /\ b.timeGiven /\ b.time = 0
        \/ b.kind = "object" /\ b.pageGiven /\ b.page = 0
        \/ raw.tags # "list"
        \/ raw.organization_slug = "!!!"
        \/ raw.organization_slug = "" /\ raw.organization = "!!!"
        \/ raw.actor_role = " "

\* C27: create_run given an invalid payload fails with a validation error that
\* carries a non-empty map of fields, and changes nothing: no run directory,
\* manifest, event or index entry is created and no workflow is enqueued.
C27_InvalidPayloadChangesNothing ==
    [][(intake = NoIntake /\ intake' # NoIntake /\ InvalidPayload(intake'.raw)) =>
          /\ intake'.raises = "ValidationError"
          /\ intake'.errors # {}
          /\ UNCHANGED <<regVars, lsnVars, idxVars, poolVars>>]_vars

\* C28: a payload whose credentials object has a non-empty field and no
\* secret_ref is rejected with a field error on credentials.secret_ref, and a
\* credentials object whose values are all empty is treated as no credentials
\* (payloads whose organization cannot be normalized are left aside).
C28_SecretRefIsRequired ==
    LET c == intake.raw.credentials
    IN  (intake.raises \in {"none", "ValidationError"} /\ c.kind = "object") =>
            /\ ((c.username # "" \/ c.other # "") /\ c.secret_ref = "") =>
                   /\ intake.raises = "ValidationError"
                   /\ "credentials.secret_ref" \in intake.errors
            /\ (c.username = "" /\ c.other = "" /\ c.secret_ref = "") =>
                   /\ intake.errors \cap {"credentials", "credentials.secret_ref"} = {}
                   /\ intake.raises = "none" => credsEmpty[intake.run]

\* The run's credentials are empty or the workflow has no auth orchestrator.
NothingToAuthenticate(r) == created[r] /\ (credsEmpty[r] \/ ~wfOrchestrator)

\* The workflow of run r never set AuthInProgress, called no orchestrator and
\* recorded no auth.attempt checkpoint.
NoAuthAttempt(r) ==
    /\ \A i \in 1..Len(summaryHistory[r]) : summaryHistory[r][i].status # "AuthInProgress"
    /\ \A i \in 1..Len(eventsFile[r]) : eventsFile[r][i].status # "AuthInProgress"
    /\ \A i \in 1..Len(calls[r]) : calls[r][i].activity # "auth"
    /\ \A i \in 1..Len(checkpoints[r]) :
           ~(checkpoints[r][i].scope = "auth" /\ checkpoints[r][i].kind = "attempt")
    /\ ~(activity[r] = "auth" /\ pc[r] \in {"attempt", "invoke"})

\* C30: if the run's credentials are empty or no auth orchestrator is
\* configured, the workflow sets status AuthSkipped, never sets AuthInProgress,
\* never invokes an orchestrator, records no auth.attempt checkpoint, and
\* proceeds to exploration.
C30_AuthSkippedWhenNothingToAuthenticate ==
    [][\A r \in Runs :
          NothingToAuthenticate(r)' =>
              /\ NoAuthAttempt(r)'
              /\ (pc[r] = "auth" /\ pc'[r] # "auth") =>
                     /\ manifestStatus'[r] = "AuthSkipped"
                     /\ pc'[r] = "exploration"
              /\ (pc[r] = "exploration" /\ pc'[r] # "exploration") =>
                     /\ manifestStatus[r] = "AuthSkipped"
                     /\ manifestStatus'[r] = "ExplorationInProgress"
                     /\ activity'[r] = "exploration"]_vars

\* A run with credentials, executed by a workflow without orchestrator, has
\* reached exploration through AuthSkipped.
C30_Witness ==
    /\ created[MainRun] /\ ~credsEmpty[MainRun] /\ ~wfOrchestrator
    /\ manifestStatus[MainRun] = "ExplorationInProgress"
    /\ \E i \in 1..Len(summaryHistory[MainRun]) : summaryHistory[MainRun][i].status = "AuthSkipped"
    /\ \E i \in 1..Len(checkpoints[MainRun]) :
           checkpoints[MainRun][i] = Checkpoint("auth", "skipped", 0, "orchestrator_unavailable")

\* Two threads call update_status on the same run, their statements interleaved
\* as the threads of the HTTP server and of the pool interleave them.  The run
\* is created and its listeners registered before the calls begin.
InitConc ==
    /\ invokeAuthOnCreate = FALSE
    /\ rsOrchestrator = FALSE
    /\ wfOrchestrator = FALSE
    /\ builderSet = FALSE
    /\ maxAttempts = DefaultMaxAttempts
    /\ InitState

\* No update_status call has begun.
NoCallYet == ThreadCalls = 0

NextConc ==
    \/ CreateRun(MainRun, TRUE, TRUE)
    \/ \E l \in Listeners : NoCallYet /\ RegisterListener(MainRun, l)
    \/ \E t \in Threads, s \in ThreadStatuses : UsBegin(t, MainRun, s)
    \/ \E t \in Threads : UsWriteHistory(t, MainRun)
    \/ \E t \in Threads : UsWriteManifest(t, MainRun)
    \/ \E t \in Threads : UsWriteSummary(t, MainRun)
    \/ \E t \in Threads : UsAppendEvent(t, MainRun)
    \/ \E t \in Threads : UsReadHistory(t, MainRun)
    \/ \E t \in Threads : UsAppendHistory(t, MainRun)
    \/ \E t \in Threads : UsSnapshot(t, MainRun)
    \/ \E t \in Threads : UsNotify(t)
    \/ \E t \in Threads : UsReturn(t)

SpecConc == InitConc /\ [][NextConc]_vars

\* ------------------------------------------------------------------ claims

IsPrefix(a, b) == Len(a) <= Len(b) /\ \A i \in 1..Len(a) : a[i] = b[i]

HasCheckpoint(r, scope, kind) ==
    \E i \in 1..Len(checkpoints[r]) :
        checkpoints[r][i].scope = scope /\ checkpoints[r][i].kind = kind

Terminated(r) == pc[r] \in {"returned", "raised"}

\* C1: whenever execute has raised, the run's persisted status is Failed and a
\* workflow.failed checkpoint has been recorded.
C1_FailedBeforeRaise ==
    \A r \in Runs :
        pc[r] = "raised" =>
            /\ manifestStatus[r] = "Failed"
            /\ Last(historyFile[r]).status = "Failed"
            /\ HasCheckpoint(r, "workflow", "failed")

\* C2: for every created run, after every completed create_run and update_status
\* call, the manifest's status is the status of the last history entry.
C2_ManifestStatusIsLastHistory ==
    \A r \in Runs :
        created[r] =>
            /\ historyFile[r] # <<>>
            /\ manifestStatus[r] = Last(historyFile[r]).status

C2_Witness ==
    \E r \in Runs :
        /\ opUpdates[r] = 2
        /\ manifestStatus[r] = "Paused"
        /\ Len(historyFile[r]) >= 4

\* C3: no two consecutive entries of status_history.json share a status.
C3_NoConsecutiveDuplicates ==
    \A r \in Runs :
        \A i \in 1..(Len(historyFile[r]) - 1) :
            historyFile[r][i].status # historyFile[r][i + 1].status

\* The full status sequence of a run whose auth phase took status auth.
HappyPath(auth) ==
    <<"Pending", "Running", auth, "ExplorationInProgress", "CrawlInProgress", "Completed">>

\* h is a full happy path.
IsHappyPath(h) == \E auth \in {"AuthInProgress", "AuthSkipped"} : h = HappyPath(auth)

\* h is a proper prefix of a happy path.
IsProperPrefix(h) ==
    \E auth \in {"AuthInProgress", "AuthSkipped"} :
        IsPrefix(h, HappyPath(auth)) /\ Len(h) < Len(HappyPath(auth))

\* h is a proper prefix of a happy path followed by Failed.
IsFailedPath(h) ==
    /\ h # <<>>
    /\ Last(h) = "Failed"
    /\ IsProperPrefix(SubSeq(h, 1, Len(h) - 1))

\* C4: with no operator update, the history of a run is, while execute runs, a
\* prefix of Pending, Running, AuthInProgress | AuthSkipped,
\* ExplorationInProgress, CrawlInProgress, Completed; it is all of it once execute
\* returned and a proper prefix followed by Failed once execute raised.
C4_HistoryShape ==
    \A r \in Runs :
        (created[r] /\ opUpdates[r] = 0) =>
            LET h == Statuses(historyFile[r])
            IN  /\ IsProperPrefix(h) \/ IsHappyPath(h) \/ IsFailedPath(h)
                /\ pc[r] = "returned" => IsHappyPath(h)
                /\ pc[r] = "raised" => IsFailedPath(h)

\* The calls of func() made for activity a of run r, in order.
CallsOf(r, a) == SelectSeq(calls[r], LAMBDA c : c.activity = a)

\* The checkpoints run_activity recorded for activity a of run r, as
\* <<kind, attempt>> pairs in file order.
ActivityCheckpoints(r, a) ==
    LET own == SelectSeq(checkpoints[r], LAMBDA c : c.scope = a /\ c.kind # "skipped")
    IN  [i \in 1..Len(own) |-> <<own[i].kind, own[i].attempt>>]

\* The status execute sets before it calls run_activity for activity a.
EntryStatus(a) ==
    CASE a = "auth" -> "AuthInProgress"
      [] a = "exploration" -> "ExplorationInProgress"
      [] OTHER -> "CrawlInProgress"

\* run_activity has been called for activity a of run r.
Entered(r, a) ==
    \E i \in 1..Len(historyFile[r]) : historyFile[r][i].status = EntryStatus(a)

\* The run_activity call for activity a of run r has not ended yet.
InProgress(r, a) == activity[r] = a /\ pc[r] \in {"attempt", "invoke"}

\* C5: under a policy with max_attempts N >= 1 the activity is invoked at most N
\* times, with attempt indices 1, 2, ...; every invocation but the last raised
\* RetryableWorkflowError (none follows a success or another exception); and a
\* run_activity call that has ended invoked it at least once.
C5_RetryOnlyAfterRetryable ==
    \A r \in Runs : \A a \in Activities :
        maxAttempts >= 1 =>
            LET cs == CallsOf(r, a)
            IN  /\ Len(cs) <= maxAttempts
                /\ \A i \in 1..Len(cs) : cs[i].attempt = i
                /\ \A i \in 1..(Len(cs) - 1) : cs[i].outcome = "retryable"
                /\ (Entered(r, a) /\ ~InProgress(r, a)) => Len(cs) >= 1

C5_Witness ==
    \E r \in Runs :
        /\ maxAttempts = 3
        /\ pc[r] = "raised"
        /\ Len(CallsOf(r, "auth")) = 3
        /\ CallsOf(r, "auth")[3].outcome = "success"
        /\ Len(CallsOf(r, "exploration")) = 2
        /\ CallsOf(r, "exploration")[2].outcome = "error"
        /\ CallsOf(r, "crawl") = <<>>

\* The orchestrator results C6 is about.
BadAuthResults == {"success_false", "non_dict"}

\* C6 as claimed: a non-dict or success=false result of the orchestrator is
\* retried, so an execute that raised after such a result had used up all
\* max_attempts invocations.
C6_BadResultIsRetried ==
    \A r \in Runs :
        (/\ pc[r] = "raised"
         /\ calls[r] # <<>>
         /\ Last(calls[r]).activity = "auth"
         /\ Last(calls[r]).result \in BadAuthResults)
        => Len(CallsOf(r, "auth")) = maxAttempts

\* C6 as amended: a non-dict or success=false result of the orchestrator is a
\* terminal failure.  It is the last invocation of the run, whatever attempts
\* remain; auth.failed is recorded for that attempt and no auth.retry; and the
\* run is Failed once execute has raised.
C6_BadResultIsTerminal ==
    \A r \in Runs : \A i \in 1..Len(calls[r]) :
        (calls[r][i].activity = "auth" /\ calls[r][i].result \in BadAuthResults) =>
            LET cps == ActivityCheckpoints(r, "auth")
            IN  /\ i = Len(calls[r])
                /\ pc[r] \in {"except", "raised"}
                /\ Last(cps) = <<"failed", calls[r][i].attempt>>
                /\ \A j \in 1..Len(cps) : cps[j] # <<"retry", calls[r][i].attempt>>
                /\ pc[r] = "raised" => manifestStatus[r] = "Failed"

C6_Witness ==
    \E r \in Runs :
        /\ maxAttempts = 3
        /\ pc[r] = "raised"
        /\ Len(calls[r]) = 2
        /\ calls[r][1].outcome = "retryable"
        /\ calls[r][2].result = "success_false"
        /\ manifestStatus[r] = "Failed"

\* The checkpoints C7 expects for the first n calls cs of an activity: an attempt
\* checkpoint before each invocation and a retry checkpoint after each one that
\* raised RetryableWorkflowError.
RECURSIVE AttemptsAndRetries(_, _)
AttemptsAndRetries(cs, n) ==
    IF n = 0 THEN <<>>
    ELSE AttemptsAndRetries(cs, n - 1)
            \o <<(<<"attempt", n>>)>>
            \o (IF cs[n].outcome = "retryable" THEN <<(<<"retry", n>>)>> ELSE <<>>)

\* The checkpoints C7 expects for activity a of run r: those of its calls, then
\* the attempt checkpoint of an invocation about to be made, or the one final
\* checkpoint of a run_activity call that has ended.
ExpectedCheckpoints(r, a) ==
    LET cs == CallsOf(r, a)
        k == Len(cs)
    IN  AttemptsAndRetries(cs, k)
            \o (IF activity[r] = a /\ pc[r] = "invoke" THEN <<(<<"attempt", k + 1>>)>> ELSE <<>>)
            \o (IF k > 0 /\ ~InProgress(r, a)
                THEN <<(<<IF cs[k].outcome = "success" THEN "succeeded" ELSE "failed", k>>)>>
                ELSE <<>>)

\* Number of checkpoints of kind among cps.
KindCount(cps, kind) == Cardinality({i \in 1..Len(cps) : cps[i][1] = kind})

\* C7: with max_attempts N >= 1, the checkpoints of each activity are, in order,
\* one attempt before every invocation (attempt index 1, 2, ...), one retry after
\* every invocation that raised RetryableWorkflowError, and exactly one final
\* checkpoint, succeeded if run_activity returned or failed if it raised.  An
\* activity that succeeds after k < N retryable failures has k retry
\* checkpoints, one succeeded and no failed; and an execute that has ended with
\* an activity succeeded and no activity failed has ended Completed.
C7_CheckpointOrder ==
    \A r \in Runs :
        maxAttempts >= 1 =>
            /\ \A a \in Activities :
                LET cs == CallsOf(r, a)
                    cps == ActivityCheckpoints(r, a)
                IN  /\ cps = ExpectedCheckpoints(r, a)
                    /\ (cs # <<>> /\ Last(cs).outcome = "success") =>
                           /\ Len(cs) - 1 < maxAttempts
                           /\ KindCount(cps, "retry") = Len(cs) - 1
                           /\ KindCount(cps, "succeeded") = 1
                           /\ KindCount(cps, "failed") = 0
            /\ (/\ Terminated(r)
                /\ \E a \in Activities : HasCheckpoint(r, a, "succeeded")
                /\ \A a \in Activities : ~HasCheckpoint(r, a, "failed"))
               => /\ pc[r] = "returned"
                  /\ manifestStatus[r] = "Completed"
                  /\ Last(historyFile[r]).status = "Completed"

C7_Witness ==
    \E r \in Runs :
        /\ maxAttempts = 3
        /\ pc[r] = "returned"
        /\ ActivityCheckpoints(r, "auth") =
               <<(<<"attempt", 1>>), <<"retry", 1>>, <<"attempt", 2>>, <<"retry", 2>>,
                 <<"attempt", 3>>, <<"succeeded", 3>>>>
        /\ manifestStatus[r] = "Completed"

\* C8, for an execute that has ended: absent shutdown, a submitted run whose
\* execute has returned or raised (and which nothing will update again) has
\* persisted status Completed or Failed.
C8_ExecutedRunIsTerminal ==
    ~stopEvent =>
        \A r \in Runs :
            (spc[r] = "done" /\ Terminated(r)) => manifestStatus[r] \in {"Completed", "Failed"}

\* C9: once the stop flag is set no worker takes a run_id from the queue to
\* execute it, and a submit made once the flag is set ends rejected without
\* enqueuing.
C9_NoStartAfterStop ==
    [][stopEvent =>
          /\ \A w \in Workers : wpc[w] # "exec" => wpc'[w] # "exec"
          /\ \A r \in Runs : spc[r] = "none" => spc'[r] \in {"none", "rejected"}]_vars

\* The position of event e in events.jsonl of run r.
EventPosition(r, e) == CHOOSE k \in 1..Len(eventsFile[r]) : eventsFile[r][k] = e

\* C10: every listener is called with the events of the run in the order the
\* events have in events.jsonl.
C10_ListenerOrderIsFileOrder ==
    \A l \in Listeners :
        \A i, j \in 1..Len(delivered[l]) :
            i < j =>
                EventPosition(MainRun, delivered[l][i]) <= EventPosition(MainRun, delivered[l][j])

\* C11: once two concurrent update_status calls with distinct statuses on the
\* same run have both returned, status_history.json holds the entry of each.
C11_NoUpdateLost ==
    (/\ \A t \in Threads : thr[t].calls = 1 /\ thr[t].pc = "idle"
     /\ thr["workflow"].status # thr["operator"].status)
        => \A t \in Threads :
               \E k \in 1..Len(historyFile[MainRun]) :
                   historyFile[MainRun][k] = Entry(thr[t].status, thr[t].timestamp)

\* C12: a run whose create_run has returned has an entry in run_index.json and
\* is among the runs list_runs returns, also when create_run calls interleave.
C12_CreatedRunIsIndexed ==
    \A r \in Runs :
        cpc[r] = "done" =>
            /\ index[r] # NoEntry
            /\ \E e \in ListRuns : e.id = r

\* The endpoints of one run and the scope _require_scope is called with.
PerRunEndpoints ==
    {read.ep : read \in RunReads} \cup {"POST /runs/{id}/status", "POST /runs/{id}/checkpoints"}

EndpointScope(ep) ==
    CASE ep \in {"POST /runs", "POST /runs/{id}/status", "POST /runs/{id}/checkpoints"} -> "runs:create"
      [] ep = "GET /runs/{id}/events/stream" -> "runs:events"
      [] OTHER -> "runs:read"

\* The principal's scopes hold none of runs:read:all, runs:* and *.
Restricted(principal) == principal.scopes \cap {"runs:read:all", "runs:*", "*"} = {}

\* The response being sent answers a restricted principal of the registry that
\* asked, on a per-run endpoint, for a run of another organization.
ForeignRunRequested ==
    /\ authRequired
    /\ resp'.token \in Tokens
    /\ Restricted(TokenRegistry[resp'.token])
    /\ resp'.ep \in PerRunEndpoints
    /\ created[resp'.run]
    /\ manifestSlug[resp'.run] # TokenRegistry[resp'.token].organization_slug

\* GET /runs answers a restricted principal with runs of its organization only.
ListingIsScoped ==
    (/\ authRequired
     /\ resp'.token \in Tokens
     /\ Restricted(TokenRegistry[resp'.token])
     /\ resp'.ep = "GET /runs")
        => \A id \in resp'.listed :
               manifestSlug[id] = TokenRegistry[resp'.token].organization_slug

\* C13 as stated: with a token registry, every per-run endpoint answers a
\* restricted principal asking for another organization's run with 403
\* organization_mismatch and leaves the run as it is, and GET /runs lists only
\* runs of the principal's organization.
C13_ForeignRunIsOrganizationMismatch ==
    [][/\ ForeignRunRequested =>
              /\ resp'.code = 403
              /\ resp'.reason = "organization_mismatch"
              /\ resp'.served = "none"
              /\ UNCHANGED <<regVars, lsnVars, idxVars>>
       /\ ListingIsScoped]_vars

\* C13, amended: the request is denied with 403 and the run left as it is; the
\* reason is organization_mismatch when the principal holds the endpoint's
\* scope and insufficient scope when it does not; GET /runs lists only runs of
\* the principal's organization.
C13_ForeignRunIsDenied ==
    [][/\ ForeignRunRequested =>
              /\ resp'.code = 403
              /\ resp'.reason =
                     IF ScopeAllows(TokenRegistry[resp'.token].scopes, EndpointScope(resp'.ep))
                     THEN "organization_mismatch"
                     ELSE "insufficient_scope"
              /\ resp'.served = "none"
              /\ UNCHANGED <<regVars, lsnVars, idxVars>>
       /\ ListingIsScoped]_vars

\* A runner of organization acme is refused the status update of a run of
\* organization beta.
C13_Witness ==
    /\ authRequired
    /\ resp.token = "tok-runner"
    /\ resp.ep = "POST /runs/{id}/status"
    /\ resp.code = 403
    /\ resp.reason = "organization_mismatch"
    /\ manifestSlug[resp.run] = "beta"

\* The response being sent carries nothing of a run and no listing, and the
\* handler changed nothing.
NothingDone ==
    /\ resp'.served = "none"
    /\ resp'.listed = {}
    /\ UNCHANGED <<regVars, lsnVars, idxVars>>

\* C14: with a token registry, a scoped endpoint answers 401 and does nothing
\* when the request's token is not in the registry, answers 403 and does nothing
\* when the principal's scopes hold neither the endpoint's scope nor runs:* nor *,
\* and so a token holding only runs:read and runs:events never creates a run and
\* never changes a run's status.
C14_ScopedEndpointsRequireScope ==
    [][(authRequired /\ resp' # NoResponse) =>
          /\ resp'.token \notin Tokens => (resp'.code = 401 /\ NothingDone)
          /\ (/\ resp'.token \in Tokens
              /\ ~(\/ EndpointScope(resp'.ep) \in TokenRegistry[resp'.token].scopes
                   \/ "runs:*" \in TokenRegistry[resp'.token].scopes
                   \/ "*" \in TokenRegistry[resp'.token].scopes))
                 => (resp'.code = 403 /\ NothingDone)
          /\ resp'.token = "tok-viewer" => UNCHANGED <<created, manifestStatus, historyFile>>]_vars

\* The viewer's POST /runs is answered 403 for insufficient scope while runs
\* of others exist.
C14_Witness ==
    /\ authRequired
    /\ resp.token = "tok-viewer"
    /\ resp.ep = "POST /runs"
    /\ resp.code = 403
    /\ resp.reason = "insufficient_scope"
    /\ created["r1"]

\* C15: with a token registry, a run created through POST /runs is stored with
\* the organization_slug of the principal that created it, and that principal
\* reading the run back is served it.
C15_CreatorOwnsRun ==
    authRequired =>
        /\ \A r \in Runs :
               creator[r] \in Tokens =>
                   manifestSlug[r] = TokenRegistry[creator[r]].organization_slug
        /\ (/\ resp.ep = "GET /runs/{id}"
            /\ resp.token \in Tokens
            /\ resp.token = creator[resp.run])
               => (resp.code = 200 /\ resp.served = resp.run)

\* C17: get_artifact_path either fails with the invalid-path error or returns
\* a path that is the run directory or lies below it.
C17_ArtifactPathInsideRunDir ==
    pathResult.status = "returned" => IsPrefix(RunDir, pathResult.path)

\* ------------------------------------------------------------------ C16

\* The URL u verifies: its signature is the HMAC of its fields, with the
\* expiry as the integer it denotes, under a key of the ring; it has not
\* expired; and its organization is the one of its run.
ValidUrl(u) ==
    /\ u.run_id \in Runs /\ created[u.run_id]
    /\ u.expires # <<>> /\ ParsesAsInt(u.expires)
    /\ \E i \in 1..Len(ring) :
           u.signature = <<ring[i], u.run_id, u.organization_slug, u.path, Dec(IntOf(u.expires))>>
    /\ now <= IntOf(u.expires)
    /\ u.organization_slug = RunMetadataSlug(u.run_id)

\* A download request gets its response in this step.
DownloadServed == dl = NoDownload /\ dl' # NoDownload

\* The requested URL differs from the issued one in the value of a parameter:
\* another run, organization, path or signature, or an expires that does not
\* denote the same instant.
ValueChanged(u) ==
    \/ u.run_id # url.run_id
    \/ u.organization_slug # url.organization_slug
    \/ u.path # url.path
    \/ u.signature # url.signature
    \/ u.expires = <<>>
    \/ ~ParsesAsInt(u.expires)
    \/ IntOf(u.expires) # IntOf(url.expires)

Occurrences(seq, x) == Cardinality({i \in 1..Len(seq) : seq[i] = x})

\* The ceiling of coverage_threshold * |pages|.
CeilOfThreshold ==
    (Len(expPages) * expConfig.coverage_threshold.num + expConfig.coverage_threshold.den - 1)
        \div expConfig.coverage_threshold.den

\* C18: when explore has returned, visited and skipped partition the page
\* list (every occurrence of a page is in exactly one of them), visited has at
\* most ceil(coverage_threshold * |pages|) pages and, when max_pages_per_run
\* is positive, at most max_pages_per_run; an empty page list makes explore
\* raise, and nothing is written.
C18_ExplorePartitionAndBudget ==
    /\ expPc = "done" =>
          /\ expPages # <<>>
          /\ Len(expVisited) + Len(expSkipped) = Len(expPages)
          /\ \A p \in PageDescriptors :
                 Occurrences(expVisited, p) + Occurrences(expSkipped, p) = Occurrences(expPages, p)
          /\ Len(expVisited) <= CeilOfThreshold
          /\ expConfig.max_pages_per_run > 0 => Len(expVisited) <= expConfig.max_pages_per_run
    /\ (expPages = <<>> /\ expPc # "start") => (expPc = "raised" /\ expFiles = {})
    /\ expPc = "raised" => expPages = <<>>

\* explore returned after the rate limit tripped inside the candidates, with
\* pages left out by the coverage threshold too.
C18_Witness ==
    /\ expPc = "done"
    /\ Len(expPages) = 3
    /\ expRateLimited
    /\ Len(expVisited) = 1
    /\ BaselineSkipped # <<>>

\* ------------------------------------------------------------------ C19

\* The page has a destructive keyword, whatever its case, in its URL or title.
HasDestructiveKeyword(page) ==
    \E i \in 1..Len(expConfig.destructive_keywords) :
        LET keyword == Lower(expConfig.destructive_keywords[i])
        IN  /\ keyword # <<>>
            /\ Contains(Lower(page.url), keyword) \/ Contains(Lower(page.title), keyword)

\* The first budget pages, budget being max(1, floor(threshold * |pages|)).
FirstBudgetPages ==
    LET floor == (Len(expPages) * expConfig.coverage_threshold.num)
                     \div expConfig.coverage_threshold.den
    IN  SubSeq(expPages, 1, Min(Len(expPages), IF floor < 1 THEN 1 ELSE floor))

\* The candidates examined: all of them, or those before the one the rate
\* limit tripped on.
Examined == SubSeq(FirstBudgetPages, 1, Min(expIdx, Len(FirstBudgetPages)))

\* a is b with some elements left out.
RECURSIVE IsSubsequence(_, _)
IsSubsequence(a, b) ==
    IF a = <<>> THEN TRUE
    ELSE IF b = <<>> THEN FALSE
    ELSE IF Head(a) = Head(b) THEN IsSubsequence(Tail(a), Tail(b))
    ELSE IsSubsequence(a, Tail(b))

\* C19: no visited page has a destructive keyword, in any case, in its URL or
\* title; when explore has returned, every examined candidate with such a
\* keyword is in skipped and has one blocklist guardrail event per occurrence;
\* visited is a subsequence of the first budget pages.
C19_BlocklistedPagesAreSkipped ==
    /\ \A i \in 1..Len(expVisited) : ~HasDestructiveKeyword(expVisited[i])
    /\ IsSubsequence(expVisited, FirstBudgetPages)
    /\ expPc = "done" =>
          \A p \in PageDescriptors :
              HasDestructiveKeyword(p) =>
                  /\ Occurrences(expSkipped, p) >= Occurrences(Examined, p)
                  /\ Cardinality({i \in 1..Len(expEvents) :
                                     expEvents[i].type = "blocklist" /\ expEvents[i].page = p})
                        = Occurrences(Examined, p)

\* explore returned having visited a page and skipped one whose title has the
\* keyword in another case.
C19_Witness ==
    /\ expPc = "done"
    /\ expVisited # <<>>
    /\ \E i \in 1..Len(expEvents) :
           /\ expEvents[i].type = "blocklist"
           /\ expEvents[i].page.title = <<"D", "e">>
    /\ \E i \in 1..Len(expSkipped) : expSkipped[i].title = <<"D", "e">>

\* ------------------------------------------------------------------ C20

\* How many guardrail events of the crawl have this type, and how many skip
\* records this reason.
BfsEventCount(type) == Cardinality({i \in 1..Len(bfsEvents) : bfsEvents[i].type = type})

BfsSkipCount(reason) == Cardinality({i \in 1..Len(bfsSkipped) : bfsSkipped[i].reason = reason})

\* The crawl dequeues a page that is not visited yet while the limit is reached.
LimitTrips ==
    /\ bfsPc = "loop"
    /\ bfsQueue # <<>>
    /\ bfsConfig.max_nodes_per_run > 0
    /\ Len(bfsVisited) >= bfsConfig.max_nodes_per_run
    /\ \A i \in 1..Len(bfsVisited) :
           Lower(bfsVisited[i].page.url) # Lower(Head(bfsQueue).page.url)

\* C20: with max_nodes_per_run = L > 0 the crawl never has more than L visited
\* pages; the step that dequeues the first not-yet-visited page once L pages
\* are visited adds one rate_limit guardrail event and one rate_limited skip
\* record for that page and visits nothing; there is never more than one of
\* either; and once the event is there, nothing is visited, skipped or
\* enqueued any more.
C20_RateLimitStopsCrawl ==
    [][ /\ bfsConfig.max_nodes_per_run > 0 =>
               Len(bfsVisited') <= bfsConfig.max_nodes_per_run
        /\ BfsEventCount("rate_limit")' <= 1
        /\ BfsSkipCount("rate_limited")' = BfsEventCount("rate_limit")'
        /\ LimitTrips =>
               /\ BfsEventCount("rate_limit") = 0
               /\ BfsEventCount("rate_limit")' = 1
               /\ bfsEvents'[Len(bfsEvents')].type = "rate_limit"
               /\ bfsEvents'[Len(bfsEvents')].url = Head(bfsQueue).page.url
               /\ bfsSkipped'[Len(bfsSkipped')].reason = "rate_limited"
               /\ bfsSkipped'[Len(bfsSkipped')].url = Head(bfsQueue).page.url
               /\ Len(bfsSkipped') = Len(bfsSkipped) + 1
               /\ bfsVisited' = bfsVisited
        /\ BfsEventCount("rate_limit") = 1 =>
               /\ bfsVisited' = bfsVisited
               /\ bfsSkipped' = bfsSkipped
               /\ bfsEvents' = bfsEvents
               /\ bfsQueue' = bfsQueue
      ]_vars

\* The crawl returned after the limit of two pages tripped, with links still
\* in the queue and a page skipped for its keyword before.
C20_Witness ==
    /\ bfsPc = "done"
    /\ bfsConfig.max_nodes_per_run = 2
    /\ Len(bfsVisited) = 2
    /\ BfsEventCount("rate_limit") = 1
    /\ Len(bfsSkipped) >= 2
    /\ bfsQueue # <<>>

\* ------------------------------------------------------------------ C21

\* The page has a destructive keyword of the crawl, in any case, in its URL or
\* title.
HasCrawlDestructiveKeyword(page) ==
    \E i \in 1..Len(bfsConfig.destructive_keywords) :
        LET keyword == Lower(bfsConfig.destructive_keywords[i])
        IN  /\ keyword # <<>>
            /\ Contains(Lower(page.url), keyword) \/ Contains(Lower(page.title), keyword)

\* The page has a skip keyword of the crawl in its URL, as written or in
\* another case.
HasSkipKeyword(page) ==
    \E i \in 1..Len(bfsConfig.skip_keywords) :
        \/ Contains(page.url, bfsConfig.skip_keywords[i])
        \/ Contains(Lower(page.url), Lower(bfsConfig.skip_keywords[i]))

\* C21: every visited record has depth <= max_depth, no destructive keyword
\* in its URL or title and no skip keyword in its URL; no two visited records
\* have the same lower-cased URL; depths never decrease along the list; and
\* the source_page_id of every record that is not a seed is the page_id of a
\* page visited one level shallower whose adjacency list contains the record's
\* page.
C21_VisitedRecordsAreWellFormed ==
    /\ \A i \in 1..Len(bfsVisited) :
           /\ bfsVisited[i].depth <= bfsConfig.max_depth
           /\ ~HasCrawlDestructiveKeyword(bfsVisited[i].page)
           /\ ~HasSkipKeyword(bfsVisited[i].page)
    /\ \A i, j \in 1..Len(bfsVisited) :
           /\ i # j => Lower(bfsVisited[i].page.url) # Lower(bfsVisited[j].page.url)
           /\ i < j => bfsVisited[i].depth <= bfsVisited[j].depth
    /\ \A i \in 1..Len(bfsVisited) :
           bfsVisited[i].depth > 0 =>
               \E j \in 1..Len(bfsVisited) :
                   /\ bfsVisited[j].page.page_id = bfsVisited[i].source_page_id
                   /\ bfsVisited[j].depth = bfsVisited[i].depth - 1
                   /\ bfsVisited[i].page \in Elements(Children(bfsVisited[j].page))

\* ------------------------------------------------------------------ C22

C23_TokenFileOverlaysRegistryFile ==
    (secResult.call = "get_token_registry" /\ registryFile.exists /\ registryFile.content.valid) =>
        \A t \in SecTokens :
            registryFile.content.entries[t] # NoSecEntry =>
                IF tokenFile.exists /\ tokenFile.content = t
                THEN secResult.registry[t] =
                         [organization_slug |-> "default", actor_role |-> "qa_runner"]
                ELSE secResult.registry[t] = registryFile.content.entries[t]

\* ------------------------------------------------------------------ C24

\* The keys a signing key file lists: its non-blank lines in order, each once.
RECURSIVE FileKeys(_)
FileKeys(lines) ==
    IF lines = <<>> THEN <<>>
    ELSE LET before == FileKeys(SubSeq(lines, 1, Len(lines) - 1))
             key == lines[Len(lines)]
         IN  IF key = "" \/ \E i \in 1..Len(before) : before[i] = key THEN before
             ELSE Append(before, key)

\* C24: when the signing key file exists and lists a key, get_signing_keys
\* returns the file's keys in file order, the first of them as primary, and
\* no key of the environment that the file does not list.
C24_KeyFileSupersedesEnvironment ==
    ( /\ secResult.call = "get_signing_keys"
      /\ signingKeyFile.exists
      /\ FileKeys(signingKeyFile.content) # <<>> ) =>
        /\ secResult.all_keys = FileKeys(signingKeyFile.content)
        /\ secResult.primary = FileKeys(signingKeyFile.content)[1]
        /\ \A i \in 1..Len(secResult.all_keys) :
               \/ \E j \in 1..Len(signingKeyFile.content) :
                      signingKeyFile.content[j] = secResult.all_keys[i]
               \/ /\ secResult.all_keys[i] # secEnv.primary_signing_key
                  /\ \A j \in 1..Len(secEnv.previous_signing_keys) :
                         secEnv.previous_signing_keys[j] # secResult.all_keys[i]

\* ------------------------------------------------------------------ C38

\* What the files hold now: the entries of the registry file, the entry of
\* the single-token file and the keys of the signing key file, nothing for a
\* file that does not exist.
CurrentOverride == IF registryFile.exists THEN LoadRegistryOverride ELSE EmptyRegistry

CurrentTokenEntry == IF tokenFile.exists THEN LoadTokenFileEntry ELSE EmptyRegistry

CurrentFileKeys == IF signingKeyFile.exists THEN FileKeys(signingKeyFile.content) ELSE <<>>

\* The entries the sources hold now for a token, and the keys of the
\* environment.
SourceEntries(t) ==
    {secEnv.base_registry[t], CurrentTokenEntry[t], CurrentOverride[t]} \ {NoSecEntry}

EnvKeys ==
    ({secEnv.primary_signing_key}
        \cup {secEnv.previous_signing_keys[i] : i \in 1..Len(secEnv.previous_signing_keys)})
    \ {""}

\* C38: files that are written get a new mtime, and then what
\* get_token_registry returns is made of what the files hold at the call: a
\* token has an entry exactly when the static registry or one of the files
\* as it is now has one for it, and the entry is one of those, never one of
\* contents that were replaced or of a file that is gone; a token only one
\* source knows has that source's entry. get_signing_keys returns every key
\* the key file lists now, and besides them only keys of the environment;
\* without a key file it returns the keys of the environment.
C38_ResultReflectsCurrentFiles ==
    /\ secResult.call = "get_token_registry" =>
           \A t \in SecTokens :
               IF SourceEntries(t) = {} THEN secResult.registry[t] = NoSecEntry
               ELSE secResult.registry[t] \in SourceEntries(t)
    /\ secResult.call = "get_signing_keys" =>
           LET returned == {secResult.all_keys[i] : i \in 1..Len(secResult.all_keys)}
               listed == {CurrentFileKeys[i] : i \in 1..Len(CurrentFileKeys)}
           IN  /\ listed \subseteq returned
               /\ returned \subseteq listed \cup EnvKeys
               /\ listed = {} => returned = EnvKeys

\* The registry file was written twice and is gone, the token file is gone
\* too, and get_token_registry returns the static registry alone; or the key
\* file was replaced and get_signing_keys returns the one key it lists now.
C38_Witness ==
    \/ /\ secResult.call = "get_token_registry"
       /\ secWrites = MaxFileWrites
       /\ ~registryFile.exists
       /\ secEnv.base_registry # EmptyRegistry
       /\ secResult.registry = secEnv.base_registry
    \/ /\ secResult.call = "get_signing_keys"
       /\ secWrites = MaxFileWrites
       /\ signingKeyFile.mtime = MaxFileWrites
       /\ signingKeyFile.content = <<"k1">>
       /\ secEnv.previous_signing_keys = <<>>
       /\ secResult.all_keys = <<"k1">>

\* ------------------------------------------------------------------ C39

\* The loop has put the links of the page at the head of the queue at the
\* end of the queue.
ExpandsHead ==
    /\ bfsPc = "loop"
    /\ bfsQueue # <<>>
    /\ Len(bfsQueue') >= Len(bfsQueue)

\* C39: crawl comes to its end for every seed list, adjacency map and
\* max_depth, with links back to pages seen before and links of a page to
\* itself; the links of a page are enqueued only when its lowercased URL
\* enters the visited pages, and no lowercased URL enters them twice.
C39_CrawlTerminatesExpandingOnce ==
    /\ [](\A i, j \in 1..Len(bfsVisited) : bfsVisited[i].key = bfsVisited[j].key => i = j)
    /\ [][ExpandsHead =>
             /\ Lower(Head(bfsQueue).page.url) \notin {bfsVisited[i].key : i \in 1..Len(bfsVisited)}
             /\ bfsVisited' = Append(bfsVisited, CrawlRecord(Head(bfsQueue).page,
                                                             Head(bfsQueue).depth,
                                                             Head(bfsQueue).parent))]_vars
    /\ <>(bfsPc = "done")

\* A crawl without a node limit has ended on a site whose pages link to
\* themselves and to each other, and whose seeds differ in case only.
C39_Witness ==
    /\ bfsPc = "done"
    /\ bfsQueue = <<>>
    /\ bfsSeeds = <<HomeUpperPage, HomePage>>
    /\ bfsAdjacency["home-upper"] = <<HomeUpperPage, AboutPage>>
    /\ bfsAdjacency["about"] = <<AboutPage, HomePage>>
    /\ bfsConfig.max_depth = MaxDepth
    /\ bfsConfig.max_nodes_per_run = 0
    /\ Len(bfsVisited) = 2

\* ------------------------------------------------------------------ C40

\* C40: when explore has returned and no blocklist or rate limit guardrail
\* has intervened, coverage_percent is at least coverage_threshold.
C40_CoverageReachesThreshold ==
    (expPc = "done" /\ expEvents = <<>>) =>
        CoveragePercent(Len(expVisited), Len(expPages)) * expConfig.coverage_threshold.den
            >= 10000 * expConfig.coverage_threshold.num

====
